---- MODULE Spec2Model ----
(***************************************************************************)
(* A model of humaid-qsl: the ADIF log parser (utils/adif.go), the query   *)
(* engine over the parsed collection, and the reloadable parser of the web *)
(* server (cmd/web.go).                                                    *)
(*                                                                         *)
(* Text is modelled as TLA+ strings over ASCII, read one character at a    *)
(* time with SubSeq, so the regular expressions and the string functions   *)
(* of the Go code are computed character by character.                     *)
(***************************************************************************)
EXTENDS Integers, Sequences, FiniteSets, TLC

(***************************************************************************)
(* Strings: the functions of Go's strings and strconv packages that the    *)
(* parser calls, on ASCII text.                                            *)
(***************************************************************************)

Ch(s, i) == SubSeq(s, i, i)

From(s, i) == SubSeq(s, i, Len(s))

LowerLetters == "abcdefghijklmnopqrstuvwxyz"

UpperLetters == "ABCDEFGHIJKLMNOPQRSTUVWXYZ"

Digits == "0123456789"

LetterPos(letters, c) ==
  LET hits == {i \in 1..Len(letters) : Ch(letters, i) = c}
  IN  IF hits = {} THEN 0 ELSE CHOOSE i \in hits : TRUE

LowerSet == {Ch(LowerLetters, i) : i \in 1..Len(LowerLetters)}

UpperSet == {Ch(UpperLetters, i) : i \in 1..Len(UpperLetters)}

UpperOf == [c \in LowerSet |-> Ch(UpperLetters, LetterPos(LowerLetters, c))]

LowerOf == [c \in UpperSet |-> Ch(LowerLetters, LetterPos(UpperLetters, c))]

DigitSet == {Ch(Digits, i) : i \in 1..Len(Digits)}

UpperCh(c) == IF c \in LowerSet THEN UpperOf[c] ELSE c

LowerCh(c) == IF c \in UpperSet THEN LowerOf[c] ELSE c

MinOf(S) == CHOOSE x \in S : \A y \in S : x <= y

MaxOf(S) == CHOOSE x \in S : \A y \in S : y <= x

\* A text is a string of bytes.  The ASCII bytes are written as themselves;
\* the bytes from 0x80 on that the documents below hold are written with
\* characters that occur nowhere else in them:
\*   @#   the two bytes C9 90 of U+0250, LATIN SMALL LETTER TURNED A
\*   $%&  the three bytes E2 B1 AF of U+2C6F, its upper-case letter
\*   ~    the byte E9 on its own: e acute in Latin-1, not valid UTF-8
\*   ^|!  the three bytes EF BF BD of U+FFFD, utf8.RuneError
TurnedA == "@#"

TurnedAUpper == "$%&"

Latin1Byte == "~"

RuneError == "^|!"

HighBytes == {"@", "#", "$", "%", "&", "~", "^", "|", "!"}

\* strings.ToUpper, the loop at its head: no byte of s is >= utf8.RuneSelf
IsASCII(s) == \A i \in 1..Len(s) : Ch(s, i) \notin HighBytes

\* strings.ToUpper on ASCII text, byte by byte (the text is halved at each
\* step to keep the evaluation shallow)
RECURSIVE UpperASCII(_)
UpperASCII(s) ==
  IF Len(s) <= 1 THEN UpperCh(s)
  ELSE UpperASCII(SubSeq(s, 1, Len(s) \div 2))
       \o UpperASCII(From(s, (Len(s) \div 2) + 1))

\* strings.Map(unicode.ToUpper, s), rune by rune: a rune is written back in
\* the UTF-8 encoding of its upper-case letter, which may be longer or
\* shorter than its own, and a byte that is not valid UTF-8 is written
\* back as utf8.RuneError, three bytes
RECURSIVE MapUpper(_)
MapUpper(s) ==
  IF s = "" THEN ""
  ELSE IF Len(s) >= 2 /\ SubSeq(s, 1, 2) = TurnedA
         THEN TurnedAUpper \o MapUpper(From(s, 3))
  ELSE IF Len(s) >= 3 /\ SubSeq(s, 1, 3) \in {TurnedAUpper, RuneError}
         THEN SubSeq(s, 1, 3) \o MapUpper(From(s, 4))
  ELSE IF Ch(s, 1) \in HighBytes
         THEN RuneError \o MapUpper(From(s, 2))
  ELSE UpperCh(Ch(s, 1)) \o MapUpper(From(s, 2))

\* strings.ToUpper
ToUpper(s) ==
  IF IsASCII(s) THEN UpperASCII(s)
  ELSE LET last == MaxOf({i \in 1..Len(s) : Ch(s, i) \in HighBytes})
       IN  MapUpper(SubSeq(s, 1, last)) \o UpperASCII(From(s, last + 1))

\* strings.ToLower on ASCII text, byte by byte

RECURSIVE ToLower(_)
ToLower(s) ==
  IF Len(s) <= 1 THEN LowerCh(s)
  ELSE ToLower(SubSeq(s, 1, Len(s) \div 2)) \o ToLower(From(s, (Len(s) \div 2) + 1))

IsSpace(c) == c \in {" ", "\t", "\n", "\r", "\f"}

IsDigit(c) == c \in DigitSet


\* strings.TrimSpace
TrimSpace(s) ==
  LET keep == {i \in 1..Len(s) : ~IsSpace(Ch(s, i))}
  IN  IF keep = {} THEN "" ELSE SubSeq(s, MinOf(keep), MaxOf(keep))

\* strings.Index, 1-based; 0 when pat does not occur (Go: -1)
Index(s, pat) ==
  LET hits == {i \in 1..(Len(s) - Len(pat) + 1) : SubSeq(s, i, i + Len(pat) - 1) = pat}
  IN  IF hits = {} THEN 0 ELSE MinOf(hits)

\* the first position >= from whose character is in stop, Len(s)+1 when none
FirstIn(s, from, stop) ==
  LET hits == {i \in from..Len(s) : Ch(s, i) \in stop}
  IN  IF hits = {} THEN Len(s) + 1 ELSE MinOf(hits)

\* the first position >= from whose character is not a digit, Len(s)+1 when none
FirstNonDigit(s, from) ==
  LET hits == {i \in from..Len(s) : ~IsDigit(Ch(s, i))}
  IN  IF hits = {} THEN Len(s) + 1 ELSE MinOf(hits)

RECURSIVE DigitsValue(_)
DigitsValue(s) ==
  IF s = "" THEN 0
  ELSE 10 * DigitsValue(SubSeq(s, 1, Len(s) - 1)) + (LetterPos(Digits, Ch(s, Len(s))) - 1)

AllDigits(s) == \A i \in 1..Len(s) : IsDigit(Ch(s, i))

\* strconv.Atoi on a short string: an optional sign, then one or more digits.
\* [ok |-> FALSE] is the error return.
Atoi(s) ==
  LET signed == s # "" /\ Ch(s, 1) \in {"+", "-"}
      body   == IF signed THEN From(s, 2) ELSE s
  IN  IF body = "" \/ ~AllDigits(body)
        THEN [ok |-> FALSE, v |-> 0]
        ELSE [ok |-> TRUE,
              v  |-> IF signed /\ Ch(s, 1) = "-" THEN 0 - DigitsValue(body)
                     ELSE DigitsValue(body)]

(***************************************************************************)
(* time.Time and time.Duration.  An instant is [m, s]: whole minutes since *)
(* 0001-01-01T00:00:00Z (Go's zero Time) and the second within the minute; *)
(* every instant the program builds has zero nanoseconds.  A Duration is   *)
(* an int64 count of nanoseconds in Go; here it is [m, s], m*60+s seconds, *)
(* and it keeps the int64 range: 2^63-1 ns is 153722867 min 16.85 s.       *)
(***************************************************************************)

ZeroTime == [m |-> 0, s |-> 0]

\* Time.IsZero
IsZero(t) == t = ZeroTime

\* Time.Before, Time.After
Before(t, u) == t.m < u.m \/ (t.m = u.m /\ t.s < u.s)

After(t, u) == Before(u, t)

IsLeap(y) == y % 4 = 0 /\ (y % 100 # 0 \/ y % 400 = 0)

DaysBeforeMonth == <<0, 31, 59, 90, 120, 151, 181, 212, 243, 273, 304, 334>>

\* days from 0001-01-01 to the first day of year y (proleptic Gregorian)
DaysBeforeYear(y) ==
  365 * (y - 1) + ((y - 1) \div 4) - ((y - 1) \div 100) + ((y - 1) \div 400)

\* time.Date(year, month, day, hour, min, sec, 0, time.UTC): values outside
\* their usual ranges are normalised, the month overflowing into the year
\* and the time of day into the day.
Date(year, month, day, hour, min, sec) ==
  LET m0   == month - 1
      y    == year + (m0 \div 12)
      mon  == m0 % 12
      days == DaysBeforeYear(y) + DaysBeforeMonth[mon + 1]
              + (IF IsLeap(y) /\ mon >= 2 THEN 1 ELSE 0) + (day - 1)
      secs == hour * 3600 + min * 60 + sec
  IN  [m |-> days * 1440 + (secs \div 60), s |-> secs % 60]

\* time.Unix(sec, 0) for a whole number of minutes and seconds since 1970
UnixEpoch == Date(1970, 1, 1, 0, 0, 0)

\* Duration order and the two ends of the int64 range: MinDuration and
\* MaxDuration stand for -2^63 ns and 2^63-1 ns, which lie strictly outside
\* every whole-second duration in range, so they are placed one second
\* beyond the last whole second each way.
DLess(a, b) == a.m < b.m \/ (a.m = b.m /\ a.s < b.s)

DLeq(a, b) == a = b \/ DLess(a, b)

ZeroDuration == [m |-> 0, s |-> 0]

MaxDuration == [m |-> 153722867, s |-> 17]

MinDuration == [m |-> 0 - 153722868, s |-> 43]

DNorm(m, s) == IF s < 0 THEN [m |-> m - 1, s |-> s + 60] ELSE [m |-> m, s |-> s]

\* Time.Sub: t - u, saturated to the Duration range
Sub(t, u) ==
  LET d == DNorm(t.m - u.m, t.s - u.s)
  IN  IF DLess(MinDuration, d) /\ DLess(d, MaxDuration) THEN d
      ELSE IF Before(t, u) THEN MinDuration
      ELSE MaxDuration

\* unary minus on an int64 Duration: -MinDuration wraps to MinDuration
DNeg(d) ==
  IF d = MinDuration THEN MinDuration
  ELSE IF d.s = 0 THEN [m |-> 0 - d.m, s |-> 0]
  ELSE [m |-> 0 - d.m - 1, s |-> 60 - d.s]

\* time.Duration(n) * time.Minute, for 0 <= n within the Duration range
Minutes(n) == [m |-> n, s |-> 0]

(***************************************************************************)
(* utils.QSO and the record parser.                                        *)
(***************************************************************************)

QslYes == "Y"

EmptyQSO ==
  [Call |-> "", QSODate |-> "", TimeOn |-> "", QSODateOff |-> "", TimeOff |-> "",
   Band |-> "", Mode |-> "", Freq |-> "", RSTSent |-> "", RSTRcvd |-> "",
   QTH |-> "", Name |-> "", Comment |-> "", GridSquare |-> "", Country |-> "",
   DXCC |-> "", MyGridSquare |-> "", StationCall |-> "", MyRig |-> "",
   MyAntenna |-> "", TxPwr |-> "", QslSent |-> "", QslRcvd |-> "",
   LotwSent |-> "", LotwRcvd |-> "", EqslSent |-> "", EqslRcvd |-> "",
   Timestamp |-> ZeroTime]

\* parseTimestamp: [ok |-> FALSE] is the error return
parseTimestamp(date, timeOn) ==
  IF Len(date) # 8 \/ Len(timeOn) # 6 THEN [ok |-> FALSE, t |-> ZeroTime]
  ELSE
    LET year   == Atoi(SubSeq(date, 1, 4))
        month  == Atoi(SubSeq(date, 5, 6))
        day    == Atoi(SubSeq(date, 7, 8))
        hour   == Atoi(SubSeq(timeOn, 1, 2))
        minute == Atoi(SubSeq(timeOn, 3, 4))
        second == Atoi(SubSeq(timeOn, 5, 6))
    IN  IF ~(year.ok /\ month.ok /\ day.ok /\ hour.ok /\ minute.ok /\ second.ok)
          THEN [ok |-> FALSE, t |-> ZeroTime]
          ELSE [ok |-> TRUE,
                t  |-> Date(year.v, month.v, day.v, hour.v, minute.v, second.v)]

\* One match of the field regexp <([^:>]+):(\d+)>([^<]*) starting at p:
\* the name runs to the first ':' or '>' and must stop at ':', the length is
\* the run of digits and must stop at '>', the data runs to the next '<'.
FieldMatchAt(s, p) ==
  LET ne == FirstIn(s, p + 1, {":", ">"})
      de == FirstNonDigit(s, ne + 1)
      xe == FirstIn(s, de + 1, {"<"})
      ok == /\ p <= Len(s) /\ Ch(s, p) = "<"
            /\ ne > p + 1 /\ ne <= Len(s) /\ Ch(s, ne) = ":"
            /\ de > ne + 1 /\ de <= Len(s) /\ Ch(s, de) = ">"
  IN  IF ok
        THEN [ok |-> TRUE, name |-> SubSeq(s, p + 1, ne - 1),
              length |-> SubSeq(s, ne + 1, de - 1),
              data |-> SubSeq(s, de + 1, xe - 1), next |-> xe]
        ELSE [ok |-> FALSE, name |-> "", length |-> "", data |-> "", next |-> p + 1]

\* fieldRegex.FindAllStringSubmatch(record, -1): the successive leftmost
\* matches, each search resuming where the last match ended
RECURSIVE FindAllFields(_, _)
FindAllFields(s, p) ==
  LET starts == {i \in p..Len(s) : FieldMatchAt(s, i).ok}
  IN  IF starts = {} THEN << >>
      ELSE LET mt == FieldMatchAt(s, MinOf(starts))
           IN  <<mt>> \o FindAllFields(s, mt.next)

\* the declared length against the data: FALSE is the loop's `continue`.
\* A length of ten digits or more either overflows Atoi or exceeds any
\* data the model holds; both take the `continue`.
FieldHasData(lengthStr, data) ==
  /\ Len(lengthStr) <= 9
  /\ Len(data) >= DigitsValue(lengthStr)

\* the switch on fieldName
SetField(qso, fieldName, fieldValue) ==
  CASE fieldName = "call"             -> [qso EXCEPT !.Call = ToUpper(fieldValue)]
    [] fieldName = "qso_date"         -> [qso EXCEPT !.QSODate = fieldValue]
    [] fieldName = "time_on"          -> [qso EXCEPT !.TimeOn = fieldValue]
    [] fieldName = "qso_date_off"     -> [qso EXCEPT !.QSODateOff = fieldValue]
    [] fieldName = "time_off"         -> [qso EXCEPT !.TimeOff = fieldValue]
    [] fieldName = "band"             -> [qso EXCEPT !.Band = fieldValue]
    [] fieldName = "mode"             -> [qso EXCEPT !.Mode = fieldValue]
    [] fieldName = "freq"             -> [qso EXCEPT !.Freq = fieldValue]
    [] fieldName = "rst_sent"         -> [qso EXCEPT !.RSTSent = fieldValue]
    [] fieldName = "rst_rcvd"         -> [qso EXCEPT !.RSTRcvd = fieldValue]
    [] fieldName = "qth"              -> [qso EXCEPT !.QTH = fieldValue]
    [] fieldName = "name"             -> [qso EXCEPT !.Name = fieldValue]
    [] fieldName = "comment"          -> [qso EXCEPT !.Comment = fieldValue]
    [] fieldName = "gridsquare"       -> [qso EXCEPT !.GridSquare = fieldValue]
    [] fieldName = "country"          -> [qso EXCEPT !.Country = fieldValue]
    [] fieldName = "dxcc"             -> [qso EXCEPT !.DXCC = fieldValue]
    [] fieldName = "my_gridsquare"    -> [qso EXCEPT !.MyGridSquare = fieldValue]
    [] fieldName = "station_callsign" -> [qso EXCEPT !.StationCall = fieldValue]
    [] fieldName = "my_rig"           -> [qso EXCEPT !.MyRig = fieldValue]
    [] fieldName = "my_antenna"       -> [qso EXCEPT !.MyAntenna = fieldValue]
    [] fieldName = "tx_pwr"           -> [qso EXCEPT !.TxPwr = fieldValue]
    [] fieldName = "qsl_sent"         -> [qso EXCEPT !.QslSent = fieldValue]
    [] fieldName = "qsl_rcvd"         -> [qso EXCEPT !.QslRcvd = fieldValue]
    [] fieldName = "lotw_qsl_sent"    -> [qso EXCEPT !.LotwSent = fieldValue]
    [] fieldName = "lotw_qsl_rcvd"    -> [qso EXCEPT !.LotwRcvd = fieldValue]
    [] fieldName = "eqsl_qsl_sent"    -> [qso EXCEPT !.EqslSent = fieldValue]
    [] fieldName = "eqsl_qsl_rcvd"    -> [qso EXCEPT !.EqslRcvd = fieldValue]
    [] OTHER                          -> qso

\* the body of the loop over the matches
ApplyMatch(qso, mt) ==
  IF ~FieldHasData(mt.length, mt.data) THEN qso
  ELSE SetField(qso, ToLower(TrimSpace(mt.name)),
                TrimSpace(SubSeq(mt.data, 1, DigitsValue(mt.length))))

RECURSIVE ApplyMatches(_, _)
ApplyMatches(qso, matches) ==
  IF matches = << >> THEN qso
  ELSE ApplyMatches(ApplyMatch(qso, Head(matches)), Tail(matches))

\* the timestamp step of parseRecord
WithTimestamp(qso) ==
  IF qso.QSODate # "" /\ qso.TimeOn # ""
    THEN LET r == parseTimestamp(qso.QSODate, qso.TimeOn)
         IN  IF r.ok THEN [qso EXCEPT !.Timestamp = r.t] ELSE qso
    ELSE qso

\* MissingRequired with a slip: only the call sign is required
MissingCall(qso) == qso.Call = ""

\* the validation of parseRecord: TRUE is the error return
MissingRequired(qso) == qso.Call = "" \/ qso.QSODate = ""

\* parseRecord: the record built and whether an error is returned
parseRecord(record) ==
  LET qso == WithTimestamp(ApplyMatches(EmptyQSO, FindAllFields(record, 1)))
  IN  [qso |-> qso, err |-> MissingRequired(qso)]

(***************************************************************************)
(* The log parser: parseContent.                                           *)
(***************************************************************************)

\* the text after the first <EOH>, in any letter case; all of it when absent
StripHeader(content) ==
  LET eohIndex == Index(ToUpper(content), "<EOH>")
  IN  IF eohIndex # 0 THEN From(content, eohIndex + 5) ELSE content

\* content[eohIndex+5:] with eohIndex+5 > len(content): the slice expression
\* panics.  eohIndex is an index into strings.ToUpper(content), which is
\* longer than content when content holds bytes that grow in upper case.
HeaderPanics(content) ==
  LET eohIndex == Index(ToUpper(content), "<EOH>")
  IN  eohIndex # 0 /\ eohIndex + 4 > Len(content)

\* regexp (?i)<eor> .Split(content, -1)
RECURSIVE SplitFrom(_)
SplitFrom(s) ==
  LET i == Index(UpperASCII(s), "<EOR>")
  IN  IF i = 0 THEN <<s>>
      ELSE <<SubSeq(s, 1, i - 1)>> \o SplitFrom(From(s, i + 5))

\* SplitEOR with a slip: the regexp lacks (?i) and splits at <eor> only
RECURSIVE SplitFromExact(_)
SplitFromExact(s) ==
  LET i == Index(s, "<eor>")
  IN  IF i = 0 THEN <<s>>
      ELSE <<SubSeq(s, 1, i - 1)>> \o SplitFromExact(From(s, i + 5))

SplitEORExact(content) == IF content = "" THEN <<"">> ELSE SplitFromExact(content)

SplitEOR(content) == IF content = "" THEN <<"">> ELSE SplitFrom(content)

\* the record chunks the loop of parseContent ranges over
Records(content) == SplitEOR(StripHeader(content))

\* LoopBody with a slip: the error of parseRecord is returned, not skipped
LoopBodyStrict(qsos, chunk) ==
  LET record == TrimSpace(chunk)
  IN  IF record = "" THEN [QSOs |-> qsos, err |-> "nil"]
      ELSE LET r == parseRecord(record)
           IN  IF r.err THEN [QSOs |-> qsos, err |-> "missing required fields"]
               ELSE [QSOs |-> Append(qsos, r.qso), err |-> "nil"]

\* one iteration of the loop of parseContent: p.QSOs after the chunk, and
\* the error parseContent returns from inside the loop ("nil": an empty chunk
\* and a record that parseRecord rejects both `continue`)
LoopBody(qsos, chunk) ==
  LET record == TrimSpace(chunk)
  IN  IF record = "" THEN [QSOs |-> qsos, err |-> "nil"]
      ELSE LET r == parseRecord(record)
           IN  IF r.err THEN [QSOs |-> qsos, err |-> "nil"]
               ELSE [QSOs |-> Append(qsos, r.qso), err |-> "nil"]

RECURSIVE AppendRecords(_, _)
AppendRecords(qsos, chunks) ==
  IF chunks = << >> THEN qsos
  ELSE AppendRecords(LoopBody(qsos, Head(chunks)).QSOs, Tail(chunks))

\* parseContent on a fresh parser: the final p.QSOs (the error is always nil)
parseContent(content) == AppendRecords(<< >>, Records(content))

(***************************************************************************)
(* The query engine: SearchQSO.                                            *)
(***************************************************************************)

\* the body of the loop of SearchQSO for one record, on the loop's variables
\* st = [bestMatch, bestTimeDiff, found]
SearchBody(st, qso, callSign, searchTime, tolerance) ==
  IF qso.Call # callSign THEN st
  ELSE IF IsZero(qso.Timestamp) THEN st
  ELSE
    LET d        == Sub(qso.Timestamp, searchTime)
        timeDiff == IF DLess(d, ZeroDuration) THEN DNeg(d) ELSE d
    IN  IF DLeq(timeDiff, tolerance)
           /\ (~st.found \/ DLess(timeDiff, st.bestTimeDiff))
          THEN [bestMatch |-> qso, bestTimeDiff |-> timeDiff, found |-> TRUE]
          ELSE st

RECURSIVE SearchLoop(_, _, _, _, _)
SearchLoop(st, QSOs, callSign, searchTime, tolerance) ==
  IF QSOs = << >> THEN st
  ELSE SearchLoop(SearchBody(st, Head(QSOs), callSign, searchTime, tolerance),
                  Tail(QSOs), callSign, searchTime, tolerance)

\* SearchQSO: the slice returned, of one record or none
SearchQSO(QSOs, callSign, searchTime, toleranceMinutes) ==
  LET st == SearchLoop([bestMatch |-> EmptyQSO, bestTimeDiff |-> ZeroDuration,
                        found |-> FALSE],
                       QSOs, ToUpper(TrimSpace(callSign)), searchTime,
                       Minutes(toleranceMinutes))
  IN  IF st.found THEN <<st.bestMatch>> ELSE << >>

(***************************************************************************)
(* The query engine: the other operations.                                 *)
(***************************************************************************)

\* GetQSOsByCallsign with a slip: the call sign is compared as given
GetQSOsByCallsignRaw(QSOs, callSign) ==
  SelectSeq(QSOs, LAMBDA qso : qso.Call = callSign)

\* GetQSOsByCallsign: the loop appends the records whose Call is callSign
GetQSOsByCallsign(QSOs, callSign) ==
  SelectSeq(QSOs, LAMBDA qso : qso.Call = ToUpper(TrimSpace(callSign)))

GetTotalQSOCount(QSOs) == Len(QSOs)

\* GetUniqueCountriesCount: the size of the map of non-empty countries
GetUniqueCountriesCount(QSOs) ==
  Cardinality({QSOs[i].Country : i \in 1..Len(QSOs)} \ {""})

\* qsos[j], qsos[j+1] = qsos[j+1], qsos[j], with j counted from 1
Swapped(a, j) == [a EXCEPT ![j] = a[j + 1], ![j + 1] = a[j]]
\* the inner loop with a slip: neighbours with equal timestamps are swapped too
RECURSIVE LatestInnerUnstable(_, _, _)
LatestInnerUnstable(a, i, j) ==
  IF j - 1 >= Len(a) - i - 1 THEN a
  ELSE LatestInnerUnstable(IF ~After(a[j].Timestamp, a[j + 1].Timestamp)
                             THEN Swapped(a, j) ELSE a,
                           i, j + 1)

\* the inner loop of GetLatestQSOs from j on (Go's j is j - 1), in pass i
RECURSIVE LatestInner(_, _, _)
LatestInner(a, i, j) ==
  IF j - 1 >= Len(a) - i - 1 THEN a
  ELSE LatestInner(IF Before(a[j].Timestamp, a[j + 1].Timestamp)
                     THEN Swapped(a, j) ELSE a,
                   i, j + 1)

\* the outer loop of GetLatestQSOs from pass i on
RECURSIVE LatestOuter(_, _)
LatestOuter(a, i) ==
  IF i >= Len(a) - 1 THEN a
  ELSE LatestOuter(LatestInner(a, i, 1), i + 1)

\* GetLatestQSOs, for limit >= 0: the slice returned
GetLatestQSOs(QSOs, limit) ==
  IF Len(QSOs) = 0 THEN << >>
  ELSE LET sorted == LatestOuter(QSOs, 0)
       IN  IF Len(sorted) < limit THEN sorted ELSE SubSeq(sorted, 1, limit)

\* the loop with a slip: records without a timestamp are not passed over
RECURSIVE LatestLoopAll(_, _, _)
LatestLoopAll(QSOs, i, latest) ==
  IF i > Len(QSOs) THEN latest
  ELSE IF latest = 0 \/ After(QSOs[i].Timestamp, QSOs[latest].Timestamp)
         THEN LatestLoopAll(QSOs, i + 1, i)
         ELSE LatestLoopAll(QSOs, i + 1, latest)

\* the loop of GetLatestQSO from index i on; latest is the index the pointer
\* names, NIL for the nil pointer
RECURSIVE LatestLoop(_, _, _)
LatestLoop(QSOs, i, latest) ==
  IF i > Len(QSOs) THEN latest
  ELSE IF IsZero(QSOs[i].Timestamp) THEN LatestLoop(QSOs, i + 1, latest)
  ELSE IF latest = 0 \/ After(QSOs[i].Timestamp, QSOs[latest].Timestamp)
         THEN LatestLoop(QSOs, i + 1, i)
  ELSE LatestLoop(QSOs, i + 1, latest)

\* GetLatestQSO: the index of the record the returned pointer names
GetLatestQSO(QSOs) == IF Len(QSOs) = 0 THEN 0 ELSE LatestLoop(QSOs, 1, 0)

\* the ASCII characters 32 (space) to 95 and 97 to 126, in byte order
AsciiLow ==
  " !\"#$%&'()*+,-./0123456789:;<=>?@ABCDEFGHIJKLMNOPQRSTUVWXYZ[\\]^_"

AsciiHigh == "abcdefghijklmnopqrstuvwxyz{|}~"

\* the byte of an ASCII character
ByteOf(c) ==
  IF c = "\t" THEN 9
  ELSE IF c = "\n" THEN 10
  ELSE IF c = "\f" THEN 12
  ELSE IF c = "\r" THEN 13
  ELSE IF LetterPos(AsciiLow, c) # 0 THEN 31 + LetterPos(AsciiLow, c)
  ELSE 96 + LetterPos(AsciiHigh, c)

\* a < b on Go strings: byte by byte, a proper prefix being smaller
StrLess(a, b) ==
  \E i \in 1..Len(b) :
    /\ Len(a) >= i - 1
    /\ SubSeq(a, 1, i - 1) = SubSeq(b, 1, i - 1)
    /\ (Len(a) = i - 1 \/ ByteOf(Ch(a, i)) < ByteOf(Ch(b, i)))

\* the body with a slip: the record seen first is kept, named or not
HallBodyFirst(seen, qso) ==
  IF qso.QslRcvd # QslYes THEN seen
  ELSE IF qso.Call \notin DOMAIN seen
         THEN [c \in DOMAIN seen \cup {qso.Call} |->
                 IF c = qso.Call THEN qso ELSE seen[c]]
  ELSE seen

\* the body of the first loop of GetPaperQSLHallOfFame, on the map seen
HallBody(seen, qso) ==
  IF qso.QslRcvd # QslYes THEN seen
  ELSE IF qso.Call \notin DOMAIN seen
         THEN [c \in DOMAIN seen \cup {qso.Call} |->
                 IF c = qso.Call THEN qso ELSE seen[c]]
  ELSE IF qso.Name # "" /\ seen[qso.Call].Name = ""
         THEN [seen EXCEPT ![qso.Call] = qso]
  ELSE seen

RECURSIVE HallLoop(_, _)
HallLoop(seen, QSOs) ==
  IF QSOs = << >> THEN seen
  ELSE HallLoop(HallBody(seen, Head(QSOs)), Tail(QSOs))

\* the map seen after the first loop
HallSeen(QSOs) == HallLoop([c \in {} |-> EmptyQSO], QSOs)

\* the orders in which `for _, qso := range seen` may visit the map: Go
\* leaves the order unspecified
HallOrders(seen) ==
  {o \in [1..Cardinality(DOMAIN seen) -> DOMAIN seen] :
     \A i, j \in DOMAIN o : o[i] = o[j] => i = j}

\* the inner loop with a slip: neighbours are never swapped
HallInnerNone(a, i, j) == a

\* the inner loop of the sort by call sign from j on, in pass i
RECURSIVE HallInner(_, _, _)
HallInner(a, i, j) ==
  IF j - 1 >= Len(a) - i - 1 THEN a
  ELSE HallInner(IF StrLess(a[j + 1].Call, a[j].Call) THEN Swapped(a, j) ELSE a,
                 i, j + 1)

RECURSIVE HallOuter(_, _)
HallOuter(a, i) ==
  IF i >= Len(a) - 1 THEN a
  ELSE HallOuter(HallInner(a, i, 1), i + 1)

\* GetPaperQSLHallOfFame when the map is visited in the order `order`
GetPaperQSLHallOfFame(QSOs, order) ==
  LET seen == HallSeen(QSOs)
  IN  HallOuter([k \in 1..Len(order) |-> seen[order[k]]], 0)

(***************************************************************************)
(* The program state.                                                      *)
(*                                                                         *)
(* cmd/web.go: ReloadableParser {parser, filePath, mutex}, the task that   *)
(* runs reload() (start() during construction, then the goroutine of       *)
(* startReloading), and the request handlers that call getParser().        *)
(* utils/adif.go: the ADIFParser objects, kept in `heap`.                  *)
(***************************************************************************)

VARIABLES
  file,       \* the file at rp.filePath: [status, content]
  fd,         \* the file reload() has open
  heap,       \* the ADIFParser objects allocated so far: heap[id].QSOs
  rp_parser,  \* rp.parser: the id of the current ADIFParser, NIL before the first swap
  mutex,      \* rp.mutex, a sync.RWMutex: [writer, readers, blocked]
  phase,      \* "init": start() is in NewReloadableParser; "serve": the server runs
  pc,         \* where the task running reload() is
  parser,     \* reload()'s local variable parser
  content,    \* the text ParseFile read
  records,    \* parseContent's local variable records: the record chunks
  idx,        \* how many record chunks the loop of parseContent has done
  err,        \* the error reload() returns
  tick,       \* the ticker's channel (capacity 1) holds a tick
  rpc,        \* where each request handler is
  snap,       \* the *ADIFParser each request got from getParser()
  answers,    \* what the handler of each request got from its queries so far
  io,         \* history: how the file operations of the reload in flight went
  pre,        \* history: rp.parser and its records when the reload in flight began
  passes,     \* history, per ADIFParser: the text its parse pass read, the
              \* complete collection of that text, whether the pass is over,
              \* and whether the parser has been published
  failed,     \* history: a reload of the timer task has failed
  last,       \* history, kept in SpecOrder: the *ADIFParser the latest
              \* getParser() returned
  doc,        \* history: the pieces the text of the file was put together from
  qsos,       \* the p.QSOs of the parser the query engine runs on
  query,      \* the last query: its operation, arguments and result
  given,      \* history: the parts the record text given to parseRecord is made of
  parsed      \* what parseRecord returned for that text: [qso, err]

coordVars == <<file, fd, heap, rp_parser, mutex, phase, pc, parser, content,
               records, idx, err, tick, rpc, snap, answers, last, io, pre, passes,
               failed, doc>>

queryVars == <<qsos, query>>

recordVars == <<given, parsed>>

vars == <<coordVars, queryVars, recordVars>>

NIL == 0

(***************************************************************************)
(* Bounds of the model.                                                    *)
(***************************************************************************)

\* request handlers running concurrently
NumReaders == 2

\* reloads the timer task starts (each allocates at most one ADIFParser)
MaxReloads == 2

Readers == 1..NumReaders

(***************************************************************************)
(* The file system as reload() sees it.  "noent": os.Open fails.  "dir":   *)
(* os.Open succeeds and the read fails (the path names a directory).  A    *)
(* change of the file replaces it; a file already open keeps its content.  *)
(***************************************************************************)

NoFile == [status |-> "noent", content |-> ""]

DirFile == [status |-> "dir", content |-> ""]

TextFile(text) == [status |-> "ok", content |-> text]

DocTwo ==
  "log<EOH>\n<call:4>w1aw<qso_date:8>20240115<time_on:6>143000<eor>\n<call:5>K1ABC<qso_date:8>20240116<eor>\n"

DocMixed ==
  "<call:5>M0XYZ<qso_date:8>20240117<time_on:6>090000<eor><call:4>W1AW<eor>"

CoordFiles == {TextFile(DocTwo), TextFile(DocMixed), NoFile, DirFile}

(***************************************************************************)
(* reload(), one step at a time.                                           *)
(***************************************************************************)

readerVars == <<rpc, snap, answers, last>>

envVars == <<file, tick, doc>>

\* ReloadOpen with a slip: the failure path also drops the current parser
ReloadOpenClears ==
  /\ pc = "open"
  /\ pre' = [parser |-> rp_parser,
             QSOs   |-> IF rp_parser = NIL THEN << >> ELSE heap[rp_parser].QSOs]
  /\ IF file.status = "noent"
       THEN /\ io' = "open failed"
            /\ err' = "failed to open ADIF file"
            /\ pc' = "ret"
            /\ fd' = fd
            /\ rp_parser' = NIL
       ELSE /\ io' = "ok"
            /\ err' = "nil"
            /\ pc' = "read"
            /\ fd' = file
            /\ rp_parser' = rp_parser
  /\ UNCHANGED <<heap, mutex, phase, parser, content, records, idx, passes, failed>>
  /\ UNCHANGED <<envVars, readerVars, queryVars, recordVars>>

\* file, err := os.Open(rp.filePath); on an error reload() returns it
ReloadOpen ==
  /\ pc = "open"
  /\ pre' = [parser |-> rp_parser,
             QSOs   |-> IF rp_parser = NIL THEN << >> ELSE heap[rp_parser].QSOs]
  /\ IF file.status = "noent"
       THEN /\ io' = "open failed"
            /\ err' = "failed to open ADIF file"
            /\ pc' = "ret"
            /\ fd' = fd
       ELSE /\ io' = "ok"
            /\ err' = "nil"
            /\ pc' = "read"
            /\ fd' = file
  /\ UNCHANGED <<heap, rp_parser, mutex, phase, parser, content, records, idx, passes, failed>>
  /\ UNCHANGED <<envVars, readerVars, queryVars, recordVars>>

\* ReloadRead with a slip: the new parser is stored in rp.parser at once, and
\* filled afterwards
ReloadReadPublishFirst ==
  /\ pc = "read"
  /\ heap' = Append(heap, [QSOs |-> << >>])
  /\ parser' = Len(heap) + 1
  /\ rp_parser' = Len(heap) + 1
  /\ IF fd.status = "dir"
       THEN /\ io' = "read failed"
            /\ err' = "failed to parse ADIF file"
            /\ pc' = "ret"
            /\ passes' = Append(passes, [src |-> "", full |-> << >>, done |-> FALSE, pub |-> TRUE])
            /\ UNCHANGED <<content, records, idx>>
       ELSE /\ content' = fd.content
            /\ records' = Records(fd.content)
            /\ idx' = 0
            /\ pc' = "parse"
            /\ passes' = Append(passes, [src |-> fd.content, full |-> parseContent(fd.content),
                                     done |-> FALSE, pub |-> TRUE])
            /\ UNCHANGED <<io, err>>
  /\ UNCHANGED <<fd, mutex, phase, pre, failed>>
  /\ UNCHANGED <<envVars, readerVars, queryVars, recordVars>>

\* ReloadRead with a slip: no new parser; the file is parsed into the current
\* one (rp.parser.ParseFile(file)), which appends to its records
ReloadReadInPlace ==
  /\ pc = "read"
  /\ IF rp_parser = NIL
       THEN /\ heap' = Append(heap, [QSOs |-> << >>])
            /\ parser' = Len(heap) + 1
            /\ passes' = Append(passes, [src |-> fd.content, full |-> parseContent(fd.content),
                                     done |-> FALSE, pub |-> FALSE])
       ELSE /\ parser' = rp_parser
            /\ UNCHANGED <<heap, passes>>
  /\ IF fd.status = "dir"
       THEN /\ io' = "read failed"
            /\ err' = "failed to parse ADIF file"
            /\ pc' = "ret"
            /\ UNCHANGED <<content, records, idx>>
       ELSE /\ content' = fd.content
            /\ records' = Records(fd.content)
            /\ idx' = 0
            /\ pc' = "parse"
            /\ UNCHANGED <<io, err>>
  /\ UNCHANGED <<fd, rp_parser, mutex, phase, pre, failed>>
  /\ UNCHANGED <<envVars, readerVars, queryVars, recordVars>>

\* parser := utils.NewADIFParser(); parser.ParseFile(file): io.ReadAll, and on
\* a read error ParseFile returns it and reload() returns it wrapped;
\* otherwise parseContent strips the header and splits the text into chunks
ReloadRead ==
  /\ pc = "read"
  /\ heap' = Append(heap, [QSOs |-> << >>])
  /\ parser' = Len(heap) + 1
  /\ IF fd.status = "dir"
       THEN /\ io' = "read failed"
            /\ err' = "failed to parse ADIF file"
            /\ pc' = "ret"
            /\ passes' = Append(passes, [src |-> "", full |-> << >>, done |-> FALSE, pub |-> FALSE])
            /\ UNCHANGED <<content, records, idx>>
     ELSE IF HeaderPanics(fd.content)
       THEN /\ content' = fd.content
            /\ pc' = "panic"
            /\ passes' = Append(passes, [src |-> fd.content, full |-> << >>,
                                         done |-> FALSE, pub |-> FALSE])
            /\ UNCHANGED <<records, idx, io, err>>
       ELSE /\ content' = fd.content
            /\ records' = Records(fd.content)
            /\ idx' = 0
            /\ pc' = "parse"
            /\ passes' = Append(passes, [src |-> fd.content, full |-> parseContent(fd.content),
                                     done |-> FALSE, pub |-> FALSE])
            /\ UNCHANGED <<io, err>>
  /\ UNCHANGED <<fd, rp_parser, mutex, phase, pre, failed>>
  /\ UNCHANGED <<envVars, readerVars, queryVars, recordVars>>

\* one iteration of the loop of parseContent, on the parser being built; an
\* error returned from the loop would go up through ParseFile, and reload()
\* would return it wrapped
ParseStep ==
  /\ pc = "parse"
  /\ idx < Len(records)
  /\ LET body == LoopBody(heap[parser].QSOs, records[idx + 1])
     IN  /\ heap' = [heap EXCEPT ![parser].QSOs = body.QSOs]
         /\ IF body.err # "nil"
              THEN /\ err' = "failed to parse ADIF file"
                   /\ pc' = "ret"
                   /\ idx' = idx
              ELSE /\ idx' = idx + 1
                   /\ UNCHANGED <<err, pc>>
  /\ UNCHANGED <<fd, rp_parser, mutex, phase, parser, content, records, io, pre, passes, failed>>
  /\ UNCHANGED <<envVars, readerVars, queryVars, recordVars>>

\* the loop is over: parseContent and ParseFile return nil, reload() goes on
ParseReturn ==
  /\ pc = "parse"
  /\ idx = Len(records)
  /\ pc' = "lock"
  /\ passes' = [passes EXCEPT ![parser].done = TRUE]
  /\ UNCHANGED <<fd, heap, rp_parser, mutex, phase, parser, content, records, idx, err, io, pre, failed>>
  /\ UNCHANGED <<envVars, readerVars, queryVars, recordVars>>

\* rp.mutex.Lock(), first half: the writer announces itself; from now on
\* new readers block
LockAnnounce ==
  /\ pc = "lock"
  /\ mutex' = [mutex EXCEPT !.writer = "pending"]
  /\ pc' = "lockwait"
  /\ UNCHANGED <<fd, heap, rp_parser, phase, parser, content, records, idx, err, io, pre, passes, failed>>
  /\ UNCHANGED <<envVars, readerVars, queryVars, recordVars>>

\* rp.mutex.Lock(), second half: the readers holding the lock have left
LockAcquire ==
  /\ pc = "lockwait"
  /\ mutex.readers = {}
  /\ mutex' = [mutex EXCEPT !.writer = "held"]
  /\ pc' = "swap"
  /\ UNCHANGED <<fd, heap, rp_parser, phase, parser, content, records, idx, err, io, pre, passes, failed>>
  /\ UNCHANGED <<envVars, readerVars, queryVars, recordVars>>

\* Swap with a slip: the reference goes back to the parser of the reload
\* before the current one, as when a reload that began earlier ended later
SwapOlder ==
  /\ pc = "swap"
  /\ rp_parser' = IF rp_parser > 1 THEN rp_parser - 1 ELSE parser
  /\ passes' = [passes EXCEPT ![parser].pub = TRUE]
  /\ pc' = "unlock"
  /\ UNCHANGED <<fd, heap, mutex, phase, parser, content, records, idx, err, io, pre, failed>>
  /\ UNCHANGED <<envVars, readerVars, queryVars, recordVars>>
\* rp.parser = parser
Swap ==
  /\ pc = "swap"
  /\ rp_parser' = parser
  /\ passes' = [passes EXCEPT ![parser].pub = TRUE]
  /\ pc' = "unlock"
  /\ UNCHANGED <<fd, heap, mutex, phase, parser, content, records, idx, err, io, pre, failed>>
  /\ UNCHANGED <<envVars, readerVars, queryVars, recordVars>>

\* Unlock with a slip: reload() returns without releasing the lock
UnlockForgotten ==
  /\ pc = "unlock"
  /\ err' = "nil"
  /\ pc' = "ret"
  /\ UNCHANGED <<fd, heap, rp_parser, mutex, phase, parser, content, records, idx, io, pre, passes, failed>>
  /\ UNCHANGED <<envVars, readerVars, queryVars, recordVars>>

\* rp.mutex.Unlock(): the readers that blocked meanwhile now hold the lock;
\* then the log line and return nil
Unlock ==
  /\ pc = "unlock"
  /\ mutex' = [writer |-> "none", readers |-> mutex.blocked, blocked |-> {}]
  /\ rpc' = [r \in Readers |-> IF r \in mutex.blocked THEN "read" ELSE rpc[r]]
  /\ err' = "nil"
  /\ pc' = "ret"
  /\ UNCHANGED <<fd, heap, rp_parser, phase, parser, content, records, idx, io, pre, passes, failed>>
  /\ UNCHANGED <<envVars, snap, answers, last, queryVars, recordVars>>

(***************************************************************************)
(* The callers of reload().                                                *)
(***************************************************************************)

\* reload() has returned: its file is closed (defer file.Close()) and its
\* local variables are gone; an ADIFParser it allocated and did not publish
\* (the read failed) is referenced by nothing and is collected
ReloadLocalsGone ==
  /\ IF parser # NIL /\ parser # rp_parser
       THEN /\ heap' = SubSeq(heap, 1, parser - 1)
            /\ passes' = SubSeq(passes, 1, parser - 1)
       ELSE UNCHANGED <<heap, passes>>
  /\ fd' = NoFile
  /\ parser' = NIL
  /\ content' = ""
  /\ records' = << >>
  /\ idx' = 0
  /\ err' = "nil"
  /\ io' = "ok"
  /\ pre' = [parser |-> NIL, QSOs |-> << >>]

\* ConstructReturn with a slip: the error of the initial reload is dropped
\* and the server starts all the same
ConstructReturnServes ==
  /\ pc = "ret"
  /\ phase = "init"
  /\ pc' = "wait"
  /\ phase' = "serve"
  /\ ReloadLocalsGone
  /\ UNCHANGED <<rp_parser, mutex, failed>>
  /\ UNCHANGED <<envVars, readerVars, queryVars, recordVars>>

\* NewReloadableParser returns to start(): on an error start() returns it and
\* the program ends; otherwise startReloading() and the server start
ConstructReturn ==
  /\ pc = "ret"
  /\ phase = "init"
  /\ IF err # "nil"
       THEN pc' = "exit" /\ phase' = phase
       ELSE pc' = "wait" /\ phase' = "serve"
  /\ ReloadLocalsGone
  /\ UNCHANGED <<rp_parser, mutex, failed>>
  /\ UNCHANGED <<envVars, readerVars, queryVars, recordVars>>

\* TimerReturn with a slip: a failed reload ends the loop
TimerReturnStops ==
  /\ pc = "ret"
  /\ phase = "serve"
  /\ failed' = (failed \/ err # "nil")
  /\ pc' = IF err # "nil" THEN "exit" ELSE "wait"
  /\ ReloadLocalsGone
  /\ UNCHANGED <<rp_parser, mutex, phase>>
  /\ UNCHANGED <<envVars, readerVars, queryVars, recordVars>>

\* the goroutine of startReloading: a failed reload is logged, and the loop
\* goes back to wait for the next tick
TimerReturn ==
  /\ pc = "ret"
  /\ phase = "serve"
  /\ failed' = (failed \/ err # "nil")
  /\ pc' = "wait"
  /\ ReloadLocalsGone
  /\ UNCHANGED <<rp_parser, mutex, phase>>
  /\ UNCHANGED <<envVars, readerVars, queryVars, recordVars>>

\* for range ticker.C: a tick is received and reload() is called
TimerReceive ==
  /\ pc = "wait"
  /\ tick
  /\ tick' = FALSE
  /\ pc' = "open"
  /\ UNCHANGED <<fd, heap, rp_parser, mutex, phase, parser, content, records, idx, err, io, pre, passes, failed>>
  /\ UNCHANGED <<file, doc, readerVars, queryVars, recordVars>>

\* the ticker fires: the tick is put in the channel (a tick that finds the
\* channel full is dropped and changes nothing)
TickerFire ==
  /\ phase = "serve"
  /\ ~tick
  /\ Len(heap) <= MaxReloads
  /\ tick' = TRUE
  /\ UNCHANGED <<fd, heap, rp_parser, mutex, phase, pc, parser, content, records, idx, err, io, pre, passes, failed>>
  /\ UNCHANGED <<file, doc, readerVars, queryVars, recordVars>>

\* the log file is replaced, removed or made unreadable.  Only ReloadOpen
\* reads the path, so the changes that matter are those made before a reload
\* opens it: they are taken while the timer task waits.
FileChange ==
  /\ phase = "serve"
  /\ pc = "wait"
  /\ \E f \in CoordFiles \ {file} : file' = f
  /\ UNCHANGED <<fd, heap, rp_parser, mutex, phase, pc, parser, content, records, idx, err, io, pre, passes, failed>>
  /\ UNCHANGED <<tick, doc, readerVars, queryVars, recordVars>>

(***************************************************************************)
(* A request: the middleware calls getParser() and the handler works on    *)
(* the parser it got.                                                      *)
(***************************************************************************)

reloadVars == <<fd, heap, rp_parser, phase, pc, parser, content, records, idx, err, io, pre, passes, failed>>

\* a request arrives and its middleware calls getParser(): rp.mutex.RLock()
\* is taken at once unless a writer has announced itself or holds the lock;
\* then the reader blocks until that writer's Unlock
GetParserRLock(r) ==
  /\ phase = "serve"
  /\ rpc[r] = "idle"
  /\ IF mutex.writer = "none"
       THEN /\ mutex' = [mutex EXCEPT !.readers = @ \cup {r}]
            /\ rpc' = [rpc EXCEPT ![r] = "read"]
       ELSE /\ mutex' = [mutex EXCEPT !.blocked = @ \cup {r}]
            /\ rpc' = [rpc EXCEPT ![r] = "blocked"]
  /\ UNCHANGED <<snap, answers, last, reloadVars, envVars, queryVars, recordVars>>

\* return rp.parser, and the deferred rp.mutex.RUnlock(): the handler now
\* holds the parser it was given
GetParserReturn(r) ==
  /\ rpc[r] = "read"
  /\ snap' = [snap EXCEPT ![r] = rp_parser]
  /\ mutex' = [mutex EXCEPT !.readers = @ \ {r}]
  /\ rpc' = [rpc EXCEPT ![r] = "handle"]
  /\ UNCHANGED <<answers, last, reloadVars, envVars, queryVars, recordVars>>

\* GetParserReturn, and the parser it returns is noted in last
GetParserReturnNoted(r) ==
  /\ rpc[r] = "read"
  /\ snap' = [snap EXCEPT ![r] = rp_parser]
  /\ mutex' = [mutex EXCEPT !.readers = @ \ {r}]
  /\ rpc' = [rpc EXCEPT ![r] = "handle"]
  /\ last' = rp_parser
  /\ UNCHANGED <<answers, reloadVars, envVars, queryVars, recordVars>>

\* the path of the request GET /{path}: call sign and Unix time
PathRequest == [callsign |-> "w1aw", time |-> Date(2024, 1, 15, 14, 30, 0)]

\* the queries of the handler of GET /{path}, in the order it makes them
HandlerCalls == <<"SearchQSO", "GetQSOsByCallsign">>

\* what the query op answers on the collection QSOs
Answer(op, QSOs) ==
  IF op = "SearchQSO"
    THEN SearchQSO(QSOs, ToUpper(PathRequest.callsign), PathRequest.time, 10)
    ELSE GetQSOsByCallsign(QSOs, ToUpper(PathRequest.callsign))

\* the handler goes on to its next query: after SearchQSO it redirects when
\* nothing was found, and calls GetQSOsByCallsign otherwise
HandlerGoesOn(r) ==
  /\ rpc[r] = "handle"
  /\ Len(answers[r]) < Len(HandlerCalls)
  /\ (Len(answers[r]) = 1 => answers[r][1].result # << >>)

\* HandlerQuery with a slip: each query asks getParser() for the parser
HandlerQueryCurrent(r) ==
  /\ HandlerGoesOn(r)
  /\ LET op == HandlerCalls[Len(answers[r]) + 1]
     IN  answers' = [answers EXCEPT ![r] =
                       Append(@, [op      |-> op,
                                  from    |-> rp_parser,
                                  current |-> rp_parser,
                                  result  |-> Answer(op, heap[rp_parser].QSOs)])]
  /\ UNCHANGED <<rpc, snap, last, mutex, reloadVars, envVars, queryVars, recordVars>>

\* the handler makes its next query on the parser the middleware mapped
\* into its context; from is that parser and current is rp.parser at the
\* time of the query (history)
HandlerQuery(r) ==
  /\ HandlerGoesOn(r)
  /\ LET op == HandlerCalls[Len(answers[r]) + 1]
     IN  answers' = [answers EXCEPT ![r] =
                       Append(@, [op      |-> op,
                                  from    |-> snap[r],
                                  current |-> rp_parser,
                                  result  |-> Answer(op, heap[snap[r]].QSOs)])]
  /\ UNCHANGED <<rpc, snap, last, mutex, reloadVars, envVars, queryVars, recordVars>>

\* the handler is done with the request and drops its parser
Respond(r) ==
  /\ rpc[r] = "handle"
  /\ rpc' = [rpc EXCEPT ![r] = "idle"]
  /\ snap' = [snap EXCEPT ![r] = NIL]
  /\ answers' = [answers EXCEPT ![r] = << >>]
  /\ UNCHANGED <<last, mutex, reloadVars, envVars, queryVars, recordVars>>

(***************************************************************************)
(* Spec: the server, from start() on, with the timer task and the requests *)
(* running concurrently and the file changing under them.                  *)
(***************************************************************************)

CoordInit ==
  /\ fd = NoFile
  /\ heap = << >>
  /\ rp_parser = NIL
  /\ mutex = [writer |-> "none", readers |-> {}, blocked |-> {}]
  /\ phase = "init"
  /\ pc = "open"
  /\ parser = NIL
  /\ content = ""
  /\ records = << >>
  /\ idx = 0
  /\ err = "nil"
  /\ tick = FALSE
  /\ rpc = [r \in Readers |-> "idle"]
  /\ snap = [r \in Readers |-> NIL]
  /\ answers = [r \in Readers |-> << >>]
  /\ last = NIL
  /\ io = "ok"
  /\ pre = [parser |-> NIL, QSOs |-> << >>]
  /\ passes = << >>
  /\ failed = FALSE

QueryIdle ==
  /\ qsos = << >>
  /\ query = [op |-> "none"]

\* no record text has been given to parseRecord
NoParts == [call |-> "", date |-> "", time |-> "", prev |-> "",
            field |-> [length |-> "", data |-> ""]]

NoResult == [op |-> "none"]

RecordIdle ==
  /\ given = NoParts
  /\ parsed = NoResult

NoDoc == [header |-> "", pieces |-> << >>, trail |-> FALSE]

Init ==
  /\ file \in CoordFiles
  /\ doc = NoDoc
  /\ CoordInit
  /\ QueryIdle
  /\ RecordIdle

ReloadStep ==
  \/ ReloadOpen
  \/ ReloadRead
  \/ ParseStep
  \/ ParseReturn
  \/ LockAnnounce
  \/ LockAcquire
  \/ Swap
  \/ Unlock

TimerStep ==
  \/ ConstructReturn
  \/ TimerReturn
  \/ TimerReceive

ReaderStep(r) ==
  \/ GetParserRLock(r)
  \/ GetParserReturn(r)
  \/ Respond(r)

Next ==
  \/ ReloadStep
  \/ TimerStep
  \/ TickerFire
  \/ FileChange
  \/ \E r \in Readers : ReaderStep(r)

Spec == Init /\ [][Next]_vars

\* SpecRequest: the same, with the handlers making their queries
NextRequest ==
  \/ Next
  \/ \E r \in Readers : HandlerQuery(r)

SpecRequest == Init /\ [][NextRequest]_vars

\* SpecOrder: Spec with the order of the getParser() results noted
NextOrder ==
  \/ ReloadStep
  \/ TimerStep
  \/ TickerFire
  \/ FileChange
  \/ \E r \in Readers : GetParserRLock(r) \/ GetParserReturnNoted(r) \/ Respond(r)

SpecOrder == Init /\ [][NextOrder]_vars

\* FairSpec: Spec with the scheduling Go gives: a goroutine that can run does
\* run, so the goroutine in reload() and a request inside getParser() take
\* their next step.  Ticks, file changes and the arrival and end of requests
\* are not forced.  For ReloadRead and ParseStep weak fairness is written
\* out, []<>~ENABLED <<A>>_vars \/ []<><<A>>_vars, with the guard of the
\* action for ENABLED: both actions change vars whenever their guard holds.
FairSpec ==
  /\ Spec
  /\ WF_vars(ReloadOpen)
  /\ []<>(pc # "read") \/ []<><<ReloadRead>>_vars
  /\ []<>~(pc = "parse" /\ idx < Len(records)) \/ []<><<ParseStep>>_vars
  /\ WF_vars(ParseReturn)
  /\ WF_vars(LockAnnounce)
  /\ WF_vars(LockAcquire)
  /\ WF_vars(Swap)
  /\ WF_vars(Unlock)
  /\ \A r \in Readers : WF_vars(GetParserReturn(r))

(***************************************************************************)
(* SpecParse: start() loads one log file.  The file is missing, unreadable *)
(* or holds a document put together from a header, record texts with       *)
(* <eor> after each (in either letter case), and possibly no <eor> after   *)
(* the last.  Each record text carries what a reader of the document sees  *)
(* in it: whether it has a call sign and a date, and which.                *)
(***************************************************************************)

\* record texts in one document
MaxRecords == 3

Headers ==
  { "",
    "Exported log\n<adif_ver:5>3.1.4 <programid:3>qsl <call:5>M0XYZ\n<eoh>\n",
    "Export~ par qsl\n<eoh>\n",
    "@#<EOH>" }

Pieces ==
  { [text  |-> "<call:4>w1aw<qso_date:8>20240115<time_on:6>143000",
     valid |-> TRUE, call |-> "W1AW", date |-> "20240115"],
    [text  |-> "\n<CALL:5>K1ABC <QSO_DATE:8>20240116 <band:3>20m\n",
     valid |-> TRUE, call |-> "K1ABC", date |-> "20240116"],
    [text  |-> "<call:4>W1AW<band:3>20m",
     valid |-> FALSE, call |-> "W1AW", date |-> ""],
    [text  |-> "<qso_date:8>20240118<mode:2>CW",
     valid |-> FALSE, call |-> "", date |-> "20240118"],
    [text  |-> "<call:9>G4ABC<qso_date:8>20240119",
     valid |-> FALSE, call |-> "", date |-> "20240119"],
    [text  |-> "not a record",
     valid |-> FALSE, call |-> "", date |-> ""] }

Docs ==
  { [header |-> h, pieces |-> ps, trail |-> t] :
      h \in Headers,
      ps \in UNION {[1..k -> Pieces] : k \in 0..MaxRecords},
      t \in BOOLEAN }

EndOfRecord(i) == IF i % 2 = 1 THEN "<eor>\n" ELSE "<EOR>"

RECURSIVE JoinPieces(_, _, _)
JoinPieces(pieces, i, trail) ==
  IF i > Len(pieces) THEN ""
  ELSE pieces[i].text
       \o (IF i < Len(pieces) \/ trail THEN EndOfRecord(i) ELSE "")
       \o JoinPieces(pieces, i + 1, trail)

DocText(d) == d.header \o JoinPieces(d.pieces, 1, d.trail)

InitParse ==
  /\ \/ \E d \in Docs : doc = d /\ file = TextFile(DocText(d))
     \/ file \in {NoFile, DirFile} /\ doc = NoDoc
  /\ CoordInit
  /\ QueryIdle
  /\ RecordIdle

NextParse ==
  \/ ReloadStep
  \/ ConstructReturn

SpecParse == InitParse /\ [][NextParse]_vars

(***************************************************************************)
(* The permalink of a record: POST / redirects to "/" call "-" Unix time,  *)
(* and GET /{path} takes the path apart again.  Unix times of the years    *)
(* the logs hold need more than 32 bits: an int64 is written [neg, hi, lo],*)
(* which is hi * 10000 + lo, negated when neg.                             *)
(***************************************************************************)

\* Time.Unix(): the seconds since 1970-01-01T00:00:00Z, negative before;
\* their size is 60 * a + b with a >= 0 and 0 <= b <= 60
TimeUnix(t) ==
  LET m   == t.m - UnixEpoch.m
      neg == m < 0
      a   == IF neg THEN (0 - m) - 1 ELSE m
      b   == IF neg THEN 60 - t.s ELSE t.s
      low == 60 * (a % 10000) + b
  IN  [neg |-> neg, hi |-> 60 * (a \div 10000) + (low \div 10000), lo |-> low % 10000]

\* time.Unix(sec, 0)
UnixTime(sec) ==
  LET rest == sec.hi * 40 + sec.lo
      m    == sec.hi * 166 + (rest \div 60)
      r    == rest % 60
  IN  IF ~sec.neg THEN [m |-> UnixEpoch.m + m, s |-> r]
      ELSE IF r = 0 THEN [m |-> UnixEpoch.m - m, s |-> 0]
      ELSE [m |-> UnixEpoch.m - m - 1, s |-> 60 - r]

\* the decimal digits of n >= 0
RECURSIVE FormatDigits(_)
FormatDigits(n) ==
  IF n < 10 THEN Ch(Digits, n + 1)
  ELSE FormatDigits(n \div 10) \o Ch(Digits, (n % 10) + 1)

\* the verb %d of fmt.Sprintf on an int64; below hi stand the four digits
\* of lo
FormatInt(sec) ==
  LET low == FormatDigits(sec.lo)
  IN  (IF sec.neg THEN "-" ELSE "")
        \o (IF sec.hi = 0 THEN low
            ELSE FormatDigits(sec.hi) \o SubSeq("000", 1, 4 - Len(low)) \o low)

\* strconv.ParseInt(s, 10, 64) on a string of at most 13 digits: an optional
\* sign, then one or more digits.  [ok |-> FALSE] is the error return.
ParseInt(s) ==
  LET signed == s # "" /\ Ch(s, 1) \in {"+", "-"}
      body   == IF signed THEN From(s, 2) ELSE s
      cut    == MaxOf({0, Len(body) - 4})
      hi     == DigitsValue(SubSeq(body, 1, cut))
      lo     == DigitsValue(From(body, cut + 1))
  IN  IF body = "" \/ ~AllDigits(body)
        THEN [ok |-> FALSE, v |-> [neg |-> FALSE, hi |-> 0, lo |-> 0]]
        ELSE [ok |-> TRUE,
              v  |-> [neg |-> signed /\ Ch(s, 1) = "-" /\ (hi # 0 \/ lo # 0),
                      hi  |-> hi, lo |-> lo]]

HexDigits == "0123456789ABCDEF"

\* url.QueryEscape on ASCII text: letters, digits, "-", "_" and "." stay, a
\* blank becomes "+", every other character becomes "%" and its byte in
\* hexadecimal
RECURSIVE QueryEscape(_)
QueryEscape(s) ==
  IF s = "" THEN ""
  ELSE LET c == Ch(s, 1)
           b == ByteOf(c)
       IN  (IF c \in UpperSet \cup LowerSet \cup DigitSet \cup {"-", "_", "."} THEN c
            ELSE IF c = " " THEN "+"
            ELSE "%" \o Ch(HexDigits, (b \div 16) + 1) \o Ch(HexDigits, (b % 16) + 1))
           \o QueryEscape(From(s, 2))

\* url.QueryUnescape on text whose escapes stand for printable ASCII: "+"
\* becomes a blank and "%XX" the byte XX; a "%" without two hexadecimal
\* digits after it is the error return [ok |-> FALSE]
RECURSIVE QueryUnescape(_)
QueryUnescape(s) ==
  IF s = "" THEN [ok |-> TRUE, v |-> ""]
  ELSE IF Ch(s, 1) = "%"
    THEN LET h1 == LetterPos(HexDigits, UpperCh(Ch(s, 2))) - 1
             h2 == LetterPos(HexDigits, UpperCh(Ch(s, 3))) - 1
             b  == 16 * h1 + h2
         IN  IF Len(s) < 3 \/ h1 < 0 \/ h2 < 0
               THEN [ok |-> FALSE, v |-> ""]
               ELSE LET rest == QueryUnescape(From(s, 4))
                    IN  [ok |-> rest.ok,
                         v  |-> (IF b >= 32 /\ b <= 95 THEN Ch(AsciiLow, b - 31)
                                 ELSE IF b >= 97 /\ b <= 126 THEN Ch(AsciiHigh, b - 96)
                                 ELSE "?")
                                \o rest.v]
    ELSE LET rest == QueryUnescape(From(s, 2))
         IN  [ok |-> rest.ok,
              v  |-> (IF Ch(s, 1) = "+" THEN " " ELSE Ch(s, 1)) \o rest.v]

\* strings.LastIndex(path, "-"), 1-based; 0 when there is no dash (Go: -1)
LastDash(path) ==
  LET hits == {i \in 1..Len(path) : Ch(path, i) = "-"}
  IN  IF hits = {} THEN 0 ELSE MaxOf(hits)

\* the path of the URL POST / redirects to for the record it found:
\* fmt.Sprintf("/%s-%d", url.QueryEscape(qso.Call), qso.Timestamp.Unix()),
\* without the leading "/"
RedirectPath(qso) == QueryEscape(qso.Call) \o "-" \o FormatInt(TimeUnix(qso.Timestamp))

\* the handler of GET /{path}: the path is split at its last dash into the
\* call sign and the Unix time; it redirects to "/" when the path has no
\* dash, when either part is malformed and when SearchQSO finds nothing
GetPath(QSOs, path) ==
  LET dash == LastDash(path)
      call == QueryUnescape(SubSeq(path, 1, dash - 1))
      sec  == ParseInt(From(path, dash + 1))
  IN  IF dash = 0 \/ ~call.ok \/ ~sec.ok
        THEN [redirect |-> TRUE, callsign |-> "", result |-> << >>]
        ELSE LET found == SearchQSO(QSOs, ToUpper(call.v), UnixTime(sec.v), 10)
             IN  [redirect |-> found = << >>,
                  callsign |-> ToUpper(call.v),
                  result   |-> found]

(***************************************************************************)
(* SpecQuery: a handler runs queries, one after the other, on the parser   *)
(* it got from getParser().  The collection is any sequence of records     *)
(* that parseRecord builds from the texts below.                           *)
(***************************************************************************)

\* records in the collection a query runs on
MaxQSOs == 3

QueryTexts ==
  { "<call:4>W1AW<qso_date:8>20240115<time_on:6>143000<band:3>20m<qsl_rcvd:1>Y",
    "<call:4>W1AW<qso_date:8>20240115<time_on:6>143300<band:3>40m<qsl_rcvd:1>Y<name:5>Alice<country:13>United States",
    "<call:4>W1AW<qso_date:8>20240115<time_on:6>142700<band:3>80m<qsl_rcvd:1>Y<name:3>Bob",
    "<call:5>K1ABC<qso_date:8>20240115<time_on:6>143000<qsl_rcvd:1>Y<country:13>United States",
    "<call:4>W1AW<qso_date:8>20240115<band:2>2m<qsl_rcvd:1>N<name:3>Eve",
    "<call:4>W1AW<qso_date:8>17240115<time_on:6>143000<band:3>15m<qsl_rcvd:1>y",
    "<call:5>G4ABC<qso_date:8>20240116<time_on:6>090000<qsl_rcvd:1>Y<country:7>England" }

QueryRecords == {parseRecord(t).qso : t \in QueryTexts}

QueryCalls == {"W1AW", " w1aw ", "K1ABC"}

\* the form gives whole minutes, a permalink whole seconds
QueryTimes ==
  { Date(2024, 1, 15, 14, 30, 0), Date(2024, 1, 15, 14, 31, 0),
    Date(2024, 1, 15, 14, 40, 0), Date(2024, 1, 15, 14, 40, 1),
    Date(2024, 1, 15, 14, 41, 0), Date(2024, 1, 15, 14, 20, 0),
    Date(2024, 1, 15, 14, 19, 0), Date(2400, 1, 15, 14, 30, 0) }

QueryTolerances == {0, 3, 10}

\* the handlers pass 30
QueryLimits == {0, 1, 2, 3, 30}

NoQuery == [op |-> "none"]

\* a handler calls parser.SearchQSO(callsign, searchTime, tolerance)
Search(callSign, searchTime, toleranceMinutes) ==
  /\ query = NoQuery
  /\ query' = [op               |-> "SearchQSO",
               callSign         |-> callSign,
               searchTime       |-> searchTime,
               toleranceMinutes |-> toleranceMinutes,
               result           |-> SearchQSO(qsos, callSign, searchTime,
                                              toleranceMinutes)]
  /\ UNCHANGED <<qsos, coordVars, recordVars>>

\* parser.GetQSOsByCallsign(callsign)
ByCallsign(callSign) ==
  /\ query = NoQuery
  /\ query' = [op       |-> "GetQSOsByCallsign",
               callSign |-> callSign,
               result   |-> GetQSOsByCallsign(qsos, callSign)]
  /\ UNCHANGED <<qsos, coordVars, recordVars>>

\* parser.GetTotalQSOCount()
TotalCount ==
  /\ query = NoQuery
  /\ query' = [op |-> "GetTotalQSOCount", result |-> GetTotalQSOCount(qsos)]
  /\ UNCHANGED <<qsos, coordVars, recordVars>>

\* parser.GetUniqueCountriesCount()
UniqueCountries ==
  /\ query = NoQuery
  /\ query' = [op     |-> "GetUniqueCountriesCount",
               result |-> GetUniqueCountriesCount(qsos)]
  /\ UNCHANGED <<qsos, coordVars, recordVars>>

\* Latest with a slip: no copy is made, p.QSOs itself is sorted
LatestInPlace(limit) ==
  /\ query = NoQuery
  /\ query' = [op     |-> "GetLatestQSOs",
               limit  |-> limit,
               result |-> GetLatestQSOs(qsos, limit)]
  /\ qsos' = LatestOuter(qsos, 0)
  /\ UNCHANGED <<coordVars, recordVars>>

\* parser.GetLatestQSOs(limit): the sort works on a copy of p.QSOs
Latest(limit) ==
  /\ query = NoQuery
  /\ query' = [op     |-> "GetLatestQSOs",
               limit  |-> limit,
               result |-> GetLatestQSOs(qsos, limit)]
  /\ UNCHANGED <<qsos, coordVars, recordVars>>

\* parser.GetLatestQSO(): result is the record the pointer names, << >> for nil
Latest1 ==
  /\ query = NoQuery
  /\ query' = [op     |-> "GetLatestQSO",
               result |-> IF GetLatestQSO(qsos) = NIL THEN << >>
                          ELSE <<qsos[GetLatestQSO(qsos)]>>]
  /\ UNCHANGED <<qsos, coordVars, recordVars>>

\* parser.GetPaperQSLHallOfFame(), the map being visited in any order
HallOfFame ==
  /\ query = NoQuery
  /\ \E order \in HallOrders(HallSeen(qsos)) :
       query' = [op     |-> "GetPaperQSLHallOfFame",
                 order  |-> order,
                 result |-> GetPaperQSLHallOfFame(qsos, order)]
  /\ UNCHANGED <<qsos, coordVars, recordVars>>

\* parser.SearchQSO with the call sign and the time of a record of the
\* collection, as the handler of GET /{path} calls it for a permalink
SearchRecord(i, toleranceMinutes) ==
  /\ i <= Len(qsos)
  /\ ~IsZero(qsos[i].Timestamp)
  /\ Search(qsos[i].Call, qsos[i].Timestamp, toleranceMinutes)

\* POST / has found a record and redirects to its permalink; the browser
\* follows, and the handler of GET /{path} looks the record up again
FollowPermalink ==
  /\ query.op = "SearchQSO"
  /\ query.result # << >>
  /\ LET path == RedirectPath(query.result[1])
         got  == GetPath(qsos, path)
     IN  query' = [op       |-> "GET /{path}",
                   qso      |-> query.result[1],
                   path     |-> path,
                   redirect |-> got.redirect,
                   result   |-> got.result]
  /\ UNCHANGED <<qsos, coordVars, recordVars>>

\* the handler has used the result and goes on
Return ==
  /\ query # NoQuery
  /\ query' = NoQuery
  /\ UNCHANGED <<qsos, coordVars, recordVars>>

InitQuery ==
  /\ qsos \in UNION {[1..k -> QueryRecords] : k \in 0..MaxQSOs}
  /\ query = NoQuery
  /\ file = NoFile
  /\ doc = NoDoc
  /\ CoordInit
  /\ RecordIdle

NextQuery ==
  \/ \E c \in QueryCalls, t \in QueryTimes, m \in QueryTolerances : Search(c, t, m)
  \/ \E i \in 1..MaxQSOs, m \in QueryTolerances : SearchRecord(i, m)
  \/ FollowPermalink
  \/ \E c \in QueryCalls : ByCallsign(c)
  \/ TotalCount
  \/ UniqueCountries
  \/ \E n \in QueryLimits : Latest(n)
  \/ Latest1
  \/ HallOfFame
  \/ Return

SpecQuery == InitQuery /\ [][NextQuery]_vars

(***************************************************************************)
(* SpecRecord: parseRecord is given one record chunk, put together from    *)
(* the parts below, as the loop of parseContent gives it.                  *)
(***************************************************************************)

RecordCalls == {"", "<call:4>w1aw"}

RecordDates ==
  { "", "<qso_date:8>20240115", "<qso_date:8>20241315", "<qso_date:8>20240015",
    "<qso_date:8>2024+115", "<qso_date:7>2024011", "<qso_date:8>2024011x",
    "<qso_date:8>20240230" }

RecordTimes ==
  { "", "<time_on:6>143000", "<time_on:4>1430", "<time_on:6>14300x",
    "<time_on:6>1430-1", "<time_on:6>250000" }

\* an earlier value of the attribute the field under test sets
RecordPrevs == {"", "<comment:2>ok"}

NoField == [length |-> "", data |-> ""]

\* the field under test, <comment:length>data
RecordFields ==
  { NoField,
    [length |-> "5", data |-> "hello"],
    [length |-> "5", data |-> "hello world"],
    [length |-> "9", data |-> "hello"],
    [length |-> "0", data |-> "hello"],
    [length |-> "4", data |-> " hi "],
    [length |-> "5", data |-> "a<b c"],
    [length |-> "3", data |-> "a<b c"] }

FieldText(f) ==
  IF f = NoField THEN "" ELSE "<comment:" \o f.length \o ">" \o f.data

\* the record chunk: the parts in a row, a band field last
RecordText(g) ==
  g.call \o g.date \o g.time \o g.prev \o FieldText(g.field) \o "<band:3>20m"

\* parseContent calls p.parseRecord(record)
ParseRecord ==
  /\ parsed = NoResult
  /\ given # NoParts
  /\ parsed' = parseRecord(RecordText(given))
  /\ UNCHANGED <<given, coordVars, queryVars>>

InitRecord ==
  /\ given \in [call : RecordCalls, date : RecordDates, time : RecordTimes,
                prev : RecordPrevs, field : RecordFields]
  /\ parsed = NoResult
  /\ file = NoFile
  /\ doc = NoDoc
  /\ CoordInit
  /\ QueryIdle

NextRecord == ParseRecord

SpecRecord == InitRecord /\ [][NextRecord]_vars

(***************************************************************************)
(* The reload coordinator: what holds of Spec.                             *)
(***************************************************************************)

\* parser id holds the complete collection of the text its pass read, and no
\* pass is appending to it
IsComplete(id) ==
  /\ id # NIL
  /\ id <= Len(heap)
  /\ passes[id].done
  /\ heap[id].QSOs = passes[id].full
  /\ ~(pc \in {"read", "parse"} /\ parser = id)

\* C1: whatever the interleaving of requests with a reload in flight, the
\* parser a request got from getParser() is one that was published and holds
\* a complete collection (the whole parse of the text one reload read), never
\* one a parse pass is still appending to.
C1_ReadersSeeCompleteCollections ==
  \A r \in Readers : rpc[r] = "handle" => (passes[snap[r]].pub /\ IsComplete(snap[r]))

\* a request holds the collection from before a reload while that reload is
\* in the middle of its parse pass, with part of its records appended
C1_Witness ==
  \E r \in Readers :
    /\ rpc[r] = "handle"
    /\ pc = "parse"
    /\ idx >= 1
    /\ heap[parser].QSOs # << >>
    /\ snap[r] = rp_parser
    /\ snap[r] # parser

\* C2: a reload that fails to open or to read the file returns an error,
\* and rp.parser and the records of the parser it names are what they were
\* when the reload began.
C2_FailedReloadChangesNothing ==
  (pc = "ret" /\ io # "ok") =>
    /\ err # "nil"
    /\ rp_parser = pre.parser
    /\ rp_parser # NIL => heap[rp_parser].QSOs = pre.QSOs

\* a reload of the timer task has failed on the read while a collection of
\* two records is being served
C2_Witness ==
  /\ pc = "ret"
  /\ phase = "serve"
  /\ io = "read failed"
  /\ rp_parser # NIL
  /\ Len(heap[rp_parser].QSOs) = 2

\* C3: the records of a published parser never change, and neither do the
\* records of the parser a request holds, whatever reloads follow.
C3_PublishedNeverModified ==
  [][/\ \A id \in 1..Len(heap) :
          passes[id].pub => (id <= Len(heap') /\ heap'[id] = heap[id])
     /\ \A r \in Readers :
          (rpc[r] = "handle" /\ rpc'[r] = "handle") =>
             (snap'[r] = snap[r] /\ heap'[snap[r]] = heap[snap[r]])]_vars

\* a request still holds a parser that two later reloads have replaced
C3_Witness ==
  \E r \in Readers :
    /\ rpc[r] = "handle"
    /\ snap[r] # NIL
    /\ rp_parser >= snap[r] + 2
    /\ heap[rp_parser].QSOs # heap[snap[r]].QSOs

Keys(QSOs) == [i \in 1..Len(QSOs) |-> <<QSOs[i].Call, QSOs[i].QSODate>>]

IsValidPiece(p) == p.valid

\* the call signs and dates of the valid record texts of a document, in
\* the document's order
ValidKeys(pieces) ==
  LET v == SelectSeq(pieces, IsValidPiece)
  IN  [i \in 1..Len(v) |-> <<v[i].call, v[i].date>>]

\* C6: once the parse pass over a document of N valid and M invalid or
\* malformed record texts is over, the collection holds exactly the N valid
\* records, in the order they have in the document.
C6_ValidRecordsInOrder ==
  \A id \in 1..Len(heap) :
    (passes[id].done /\ file.status = "ok") =>
      /\ Len(heap[id].QSOs) = Len(SelectSeq(doc.pieces, IsValidPiece))
      /\ Keys(heap[id].QSOs) = ValidKeys(doc.pieces)

\* C6 on the documents whose header is ASCII text
C6_OnAsciiHeader == IsASCII(doc.header) => C6_ValidRecordsInOrder

\* the collection of a document with an invalid record between two valid
\* records of different call signs has been published
C6_Witness ==
  /\ rp_parser # NIL
  /\ Len(doc.pieces) = 3
  /\ doc.pieces[1].valid /\ ~doc.pieces[2].valid /\ doc.pieces[3].valid
  /\ doc.pieces[1].call # doc.pieces[3].call
  /\ Len(heap[rp_parser].QSOs) = 2

\* C7: every record of every collection has a non-empty call and a
\* non-empty qsoDate, and the loop step over a record text that lacks either
\* leaves the collection as it was.
C7_RecordsHaveCallAndDate ==
  /\ [](\A id \in 1..Len(heap) : \A i \in 1..Len(heap[id].QSOs) :
          heap[id].QSOs[i].Call # "" /\ heap[id].QSOs[i].QSODate # "")
  /\ [][(pc = "parse" /\ idx < Len(doc.pieces) /\ ~doc.pieces[idx + 1].valid)
          => heap' = heap]_vars

\* the loop has gone past a valid record and then a record text that has a
\* call sign and no date, and the collection holds the valid record only
C7_Witness ==
  /\ pc = "parse"
  /\ idx >= 2
  /\ Len(doc.pieces) >= 2
  /\ doc.pieces[1].valid
  /\ doc.pieces[2].call # "" /\ doc.pieces[2].date = ""
  /\ Len(heap[parser].QSOs) = 1

\* C8: reload() returns an error exactly when the file could not be opened
\* or read; whatever the record texts are it returns nil with the valid
\* records published, and for a document without records, with or without
\* a header, the published collection is empty.
C8_OnlyFileErrorsSurface ==
  /\ pc # "panic"
  /\ pc = "ret" =>
       /\ (err # "nil") <=> (file.status # "ok")
       /\ file.status = "ok" =>
            /\ rp_parser = parser
            /\ Keys(heap[rp_parser].QSOs) = ValidKeys(doc.pieces)
            /\ (doc.pieces = << >> => heap[rp_parser].QSOs = << >>)

\* C8 on the documents whose header is ASCII text
C8_OnAsciiHeader == IsASCII(doc.header) => C8_OnlyFileErrorsSurface

\* reload() has panicked in parseContent on a document that is a header,
\* with a letter outside ASCII, and nothing else
C8_Panic ==
  /\ pc = "panic"
  /\ doc.pieces = << >>
  /\ ~IsASCII(doc.header)
  /\ file.status = "ok"

\* reload() has returned nil on a document whose record texts are all
\* invalid, and the published collection is empty
C8_Witness ==
  /\ pc = "ret"
  /\ err = "nil"
  /\ Len(doc.pieces) >= 2
  /\ \A i \in 1..Len(doc.pieces) : ~doc.pieces[i].valid
  /\ rp_parser # NIL
  /\ heap[rp_parser].QSOs = << >>

(***************************************************************************)
(* The query engine: what holds of SpecQuery.                              *)
(***************************************************************************)

\* the distance between two instants, as minutes and seconds, whatever its size
Gap(t, u) ==
  LET d == DNorm(t.m - u.m, t.s - u.s)
  IN  IF d.m >= 0 THEN d
      ELSE IF d.s = 0 THEN [m |-> 0 - d.m, s |-> 0]
      ELSE [m |-> 0 - d.m - 1, s |-> 60 - d.s]

\* the queried call sign as SearchQSO compares it
QueriedCall == ToUpper(TrimSpace(query.callSign))

\* the records with the queried call sign
SameCall == {i \in 1..Len(qsos) : qsos[i].Call = QueriedCall}

\* the records with the queried call sign that lie within tolerance
WithinTolerance ==
  {i \in SameCall : /\ ~IsZero(qsos[i].Timestamp)
                    /\ DLeq(Gap(qsos[i].Timestamp, query.searchTime),
                            Minutes(query.toleranceMinutes))}

\* every distance SearchQSO measures fits a Duration
InDurationRange ==
  \A i \in SameCall :
    ~IsZero(qsos[i].Timestamp) =>
      DLess(Gap(qsos[i].Timestamp, query.searchTime), MaxDuration)

\* C9: when one record only has the queried call sign, search returns it if
\* its distance from the target time is at most toleranceMinutes minutes,
\* the boundary included, and returns none if the distance is greater.
C9_ToleranceBoundaryInclusive ==
  (query.op = "SearchQSO" /\ Cardinality(SameCall) = 1) =>
    \A i \in SameCall :
      ~IsZero(qsos[i].Timestamp) =>
        IF i \in WithinTolerance
          THEN query.result = <<qsos[i]>>
          ELSE query.result = << >>

\* C9 where the distance fits a Duration (less than 2^63 ns, about 292 years)
C9_BoundaryWithinDurationRange ==
  (query.op = "SearchQSO" /\ InDurationRange) => C9_ToleranceBoundaryInclusive

\* the first of the records within tolerance at the least distance
Closest ==
  CHOOSE i \in WithinTolerance :
    \A j \in WithinTolerance :
      LET gi == Gap(qsos[i].Timestamp, query.searchTime)
          gj == Gap(qsos[j].Timestamp, query.searchTime)
      IN  DLess(gi, gj) \/ (gi = gj /\ i <= j)

\* C10: when records with the queried call sign lie within tolerance,
\* search returns the one at the least distance from the target time, and
\* of several at that distance the first in collection order.
C10_ClosestFirstInOrder ==
  (query.op = "SearchQSO" /\ WithinTolerance # {}) =>
    query.result = <<qsos[Closest]>>

\* C10 where every distance fits a Duration
C10_ClosestWithinDurationRange ==
  (query.op = "SearchQSO" /\ InDurationRange) => C10_ClosestFirstInOrder

\* C11: search trims and upper-cases the queried call sign and considers
\* only records with exactly that call and a non-zero timestamp; it returns
\* at most one record, and none when the call sign has no record, when all
\* its records have a zero timestamp or when none is within tolerance.
C11_SearchConsidersOnlyMatches ==
  query.op = "SearchQSO" =>
    /\ Len(query.result) <= 1
    /\ \A k \in 1..Len(query.result) :
         /\ query.result[k].Call = QueriedCall
         /\ ~IsZero(query.result[k].Timestamp)
         /\ \E i \in SameCall : qsos[i] = query.result[k]
    /\ (SameCall = {} => query.result = << >>)
    /\ ((\A i \in SameCall : IsZero(qsos[i].Timestamp)) => query.result = << >>)
    /\ (WithinTolerance = {} => query.result = << >>)

\* C11 where every distance fits a Duration
C11_SearchWithinDurationRange ==
  (query.op = "SearchQSO" /\ InDurationRange) => C11_SearchConsidersOnlyMatches

\* search has returned none for a call sign whose records all lie outside
\* the tolerance, the call sign having been given in lower case with blanks
C11_Witness ==
  /\ query.op = "SearchQSO"
  /\ query.callSign = " w1aw "
  /\ SameCall # {}
  /\ \E i \in SameCall : ~IsZero(qsos[i].Timestamp)
  /\ InDurationRange
  /\ WithinTolerance = {}
  /\ query.result = << >>

\* record i stands before record j in the collection sorted stably by
\* timestamp, newest first
LatestPrecedes(i, j) ==
  \/ After(qsos[i].Timestamp, qsos[j].Timestamp)
  \/ qsos[i].Timestamp = qsos[j].Timestamp /\ i < j

\* the place of record i in that sorted collection
LatestRank(i) == 1 + Cardinality({j \in 1..Len(qsos) : LatestPrecedes(j, i)})

C13_Latest1IsNewest ==
  query.op = "GetLatestQSO" =>
    /\ Len(query.result) <= 1
    /\ \A k \in 1..Len(query.result) :
         /\ \E i \in 1..Len(qsos) : qsos[i] = query.result[k]
         /\ ~IsZero(query.result[k].Timestamp)
         /\ \A i \in 1..Len(qsos) :
              ~IsZero(qsos[i].Timestamp) =>
                ~Before(query.result[k].Timestamp, qsos[i].Timestamp)
    /\ (query.result = << >>) <=>
         (Len(qsos) = 0 \/ \A i \in 1..Len(qsos) : IsZero(qsos[i].Timestamp))

\* latest1() has answered with the newest record, which stands between an
\* older record and one without a timestamp
C13_Witness ==
  /\ query.op = "GetLatestQSO"
  /\ Len(qsos) = 3
  /\ ~IsZero(qsos[1].Timestamp)
  /\ Before(qsos[1].Timestamp, qsos[2].Timestamp)
  /\ IsZero(qsos[3].Timestamp)
  /\ query.result = <<qsos[2]>>

\* the records of call sign c with qslRcvd = Y, and those of them with a name
Confirmed(c) ==
  {i \in 1..Len(qsos) : qsos[i].Call = c /\ qsos[i].QslRcvd = QslYes}

ConfirmedNamed(c) == {i \in Confirmed(c) : qsos[i].Name # ""}

\* the record of call sign c that is to be kept
Kept(c) ==
  IF ConfirmedNamed(c) # {} THEN qsos[MinOf(ConfirmedNamed(c))]
  ELSE qsos[MinOf(Confirmed(c))]

\* C14: for each call sign confirmedUnique() keeps, among its records with
\* qslRcvd = Y, the first one with a non-empty name if there is one, and
\* otherwise the first one.
C14_NamedRecordPreferred ==
  query.op = "GetPaperQSLHallOfFame" =>
    /\ \A k \in 1..Len(query.result) :
         /\ Confirmed(query.result[k].Call) # {}
         /\ query.result[k] = Kept(query.result[k].Call)
    /\ \A i \in 1..Len(qsos) :
         Confirmed(qsos[i].Call) # {} =>
           \E k \in 1..Len(query.result) : query.result[k] = Kept(qsos[i].Call)

\* confirmedUnique() has answered on a call sign whose first confirmed
\* record has no name and whose second and third have one
C14_Witness ==
  /\ query.op = "GetPaperQSLHallOfFame"
  /\ Len(qsos) = 3
  /\ \A i \in 1..3 : qsos[i].Call = "W1AW" /\ qsos[i].QslRcvd = QslYes
  /\ qsos[1].Name = ""
  /\ qsos[2].Name # ""
  /\ qsos[3].Name # ""
  /\ qsos[2].Name # qsos[3].Name
  /\ query.result = <<qsos[2]>>

\* the call signs that have a record with qslRcvd = Y
ConfirmedCalls == {qsos[i].Call : i \in {j \in 1..Len(qsos) : qsos[j].QslRcvd = QslYes}}

\* C15: the call signs in the result of confirmedUnique() are exactly the
\* distinct call signs with at least one record with qslRcvd = Y, each
\* once, in strictly ascending lexicographic order whatever the collection
\* order.
C15_OneRecordPerCallSorted ==
  query.op = "GetPaperQSLHallOfFame" =>
    /\ {query.result[k].Call : k \in 1..Len(query.result)} = ConfirmedCalls
    /\ Len(query.result) = Cardinality(ConfirmedCalls)
    /\ \A k \in 1..(Len(query.result) - 1) :
         StrLess(query.result[k].Call, query.result[k + 1].Call)

\* confirmedUnique() has answered with three call signs in order on a
\* collection that holds them in the reverse order, the map having been
\* visited in yet another order
C15_Witness ==
  /\ query.op = "GetPaperQSLHallOfFame"
  /\ Len(qsos) = 3
  /\ StrLess(qsos[3].Call, qsos[2].Call)
  /\ StrLess(qsos[2].Call, qsos[1].Call)
  /\ query.order = <<qsos[2].Call, qsos[1].Call, qsos[3].Call>>
  /\ query.result = <<qsos[3], qsos[2], qsos[1]>>

\* confirmedUnique() has answered on a collection in which one call sign
\* record has qslRcvd = Y and the records before it have other values
C15_WitnessOtherValues ==
  /\ query.op = "GetPaperQSLHallOfFame"
  /\ Len(qsos) = 3
  /\ qsos[1].QslRcvd = "N"
  /\ qsos[2].QslRcvd = "y"
  /\ qsos[3].QslRcvd = QslYes
  /\ query.result = <<qsos[3]>>

\* C16: every query operation (search, byCallsign, total count,
\* unique-country count, latest(n), latest1, confirmedUnique) leaves the
\* collection as it was, the same records in the same order; the sort of
\* latest(n) works on a copy.
C16_QueriesLeaveCollection == [][qsos' = qsos]_vars

\* latest(n) has answered with all three records in another order than the
\* collection's
C16_Witness ==
  /\ query.op = "GetLatestQSOs"
  /\ Len(qsos) = 3
  /\ Len(query.result) = 3
  /\ query.result # qsos
  /\ Before(qsos[1].Timestamp, qsos[2].Timestamp)
  /\ Before(qsos[2].Timestamp, qsos[3].Timestamp)

\* C19: byCallsign(callSign) returns exactly the records whose call equals
\* the trimmed, upper-cased callSign, each once, in collection order: none
\* with another call, none left out.
C19_ByCallsignExactInOrder ==
  query.op = "GetQSOsByCallsign" =>
    /\ Len(query.result) = Cardinality(SameCall)
    /\ \A i \in SameCall :
         query.result[1 + Cardinality({j \in SameCall : j < i})] = qsos[i]
    /\ \A k \in 1..Len(query.result) : query.result[k].Call = QueriedCall

\* byCallsign(" w1aw ") has answered with the first and the third record of
\* a collection whose second record has another call
C19_Witness ==
  /\ query.op = "GetQSOsByCallsign"
  /\ query.callSign = " w1aw "
  /\ Len(qsos) = 3
  /\ qsos[1].Call = "W1AW"
  /\ qsos[2].Call = "K1ABC"
  /\ qsos[3].Call = "W1AW"
  /\ qsos[1] # qsos[3]
  /\ query.result = <<qsos[1], qsos[3]>>

(***************************************************************************)
(* The record parser: what holds of SpecRecord.                            *)
(***************************************************************************)

\* an 8-digit date with a month from 1 to 12 and a 6-digit time
WellFormed(date, timeOn) ==
  /\ Len(date) = 8 /\ AllDigits(date)
  /\ DigitsValue(SubSeq(date, 5, 6)) \in 1..12
  /\ Len(timeOn) = 6 /\ AllDigits(timeOn)

DaysIn(year, month) ==
  IF month = 2 THEN (IF IsLeap(year) THEN 29 ELSE 28)
  ELSE IF month \in {4, 6, 9, 11} THEN 30 ELSE 31

\* a well-formed date and time that name a day of the calendar and a time
\* of the day
OnCalendar(date, timeOn) ==
  /\ DigitsValue(SubSeq(date, 7, 8)) \in
       1..DaysIn(DigitsValue(SubSeq(date, 1, 4)), DigitsValue(SubSeq(date, 5, 6)))
  /\ DigitsValue(SubSeq(timeOn, 1, 2)) < 24
  /\ DigitsValue(SubSeq(timeOn, 3, 4)) < 60
  /\ DigitsValue(SubSeq(timeOn, 5, 6)) < 60

\* the UTC instant a well-formed date and time give
Instant(date, timeOn) ==
  Date(DigitsValue(SubSeq(date, 1, 4)), DigitsValue(SubSeq(date, 5, 6)),
       DigitsValue(SubSeq(date, 7, 8)), DigitsValue(SubSeq(timeOn, 1, 2)),
       DigitsValue(SubSeq(timeOn, 3, 4)), DigitsValue(SubSeq(timeOn, 5, 6)))

\* C17: the record parser sets timestamp, to the UTC instant qsoDate and
\* timeOn give, only when both are present and well-formed (8-digit date
\* with month 1-12, 6-digit time); for every malformed combination (wrong
\* length, non-digit characters, month outside 1-12) timestamp stays zero
\* and the record is still kept when call and qsoDate are non-empty.
C17_TimestampOnlyWhenWellFormed ==
  parsed # NoResult =>
    LET qso == parsed.qso
        wf  == /\ qso.QSODate # "" /\ qso.TimeOn # ""
               /\ WellFormed(qso.QSODate, qso.TimeOn)
    IN  /\ (wf /\ OnCalendar(qso.QSODate, qso.TimeOn)) =>
              qso.Timestamp = Instant(qso.QSODate, qso.TimeOn)
        /\ ~wf => IsZero(qso.Timestamp)
        /\ (~wf /\ qso.Call # "" /\ qso.QSODate # "") => ~parsed.err

\* the date and the time have no sign and the month is from 1 to 12, or one
\* of them has another length or a character that is neither digit nor sign
NoSignNoMonthOverflow(date, timeOn) ==
  \/ Len(date) # 8 \/ Len(timeOn) # 6
  \/ \E i \in 1..8 : Ch(date, i) \notin DigitSet \cup {"+", "-"}
  \/ \E i \in 1..6 : Ch(timeOn, i) \notin DigitSet \cup {"+", "-"}
  \/ WellFormed(date, timeOn)

\* C17 on the dates and times that have no sign character and no month
\* outside 1-12
C17_TimestampWithoutNormalisation ==
  (/\ parsed # NoResult
   /\ NoSignNoMonthOverflow(parsed.qso.QSODate, parsed.qso.TimeOn))
    => C17_TimestampOnlyWhenWellFormed

\* parseRecord has kept a record with a date of seven characters and a
\* well-formed time, without a timestamp
C17_Witness ==
  /\ parsed # NoResult
  /\ parsed.qso.Call = "W1AW"
  /\ parsed.qso.QSODate = "2024011"
  /\ parsed.qso.TimeOn = "143000"
  /\ IsZero(parsed.qso.Timestamp)
  /\ ~parsed.err

\* the value the attribute had before the field under test
PrevComment == IF given.prev = "" THEN "" ELSE "ok"

\* C18: for a field tag with declared length L, if at least L characters of
\* data follow the tag the field value is the first L of them (trimmed, as
\* every field value is), the rest being discarded; if fewer follow, the
\* field is skipped, the attribute keeps its previous value, and the
\* remaining fields of the record are parsed.
C18_DeclaredLengthTaken ==
  (parsed # NoResult /\ given.field # NoField) =>
    LET L == DigitsValue(given.field.length)
        D == given.field.data
    IN  /\ Len(D) >= L => parsed.qso.Comment = TrimSpace(SubSeq(D, 1, L))
        /\ Len(D) < L => parsed.qso.Comment = PrevComment
        /\ parsed.qso.Band = "20m"

\* C18 on data that holds no "<"
C18_DataWithoutAngle ==
  (/\ parsed # NoResult
   /\ \A i \in 1..Len(given.field.data) : Ch(given.field.data, i) # "<")
    => C18_DeclaredLengthTaken

\* parseRecord has skipped a field whose declared length exceeds its data,
\* kept the earlier value of the attribute and parsed the field after it
C18_Witness ==
  /\ parsed # NoResult
  /\ given.prev # ""
  /\ given.field = [length |-> "9", data |-> "hello"]
  /\ parsed.qso.Comment = "ok"
  /\ parsed.qso.Band = "20m"

(***************************************************************************)
(* The header and the record chunks: what holds of SpecParse.              *)
(***************************************************************************)

\* the places of s where marker stands in any letter case
MarkersIn(s, marker) ==
  {i \in 1..(Len(s) - 4) : UpperASCII(SubSeq(s, i, i + 4)) = marker}

\* the text after the first end-of-header marker; all of it without one
AfterHeader(s) ==
  IF MarkersIn(s, "<EOH>") = {} THEN s
  ELSE From(s, MinOf(MarkersIn(s, "<EOH>")) + 5)

\* the k-th smallest member of the set of places E
Place(E, k) == CHOOSE i \in E : Cardinality({j \in E : j < i}) = k - 1

\* the text s cut at every end-of-record marker
ChunksOf(s) ==
  LET E == MarkersIn(s, "<EOR>")
      n == Cardinality(E)
  IN  [k \in 1..(n + 1) |->
         SubSeq(s, IF k = 1 THEN 1 ELSE Place(E, k - 1) + 5,
                   IF k = n + 1 THEN Len(s) ELSE Place(E, k) - 1)]

\* C20: when the document holds an end-of-header marker, in any letter
\* case, no field before the first marker contributes to any record; the
\* remaining text is split into record chunks at every end-of-record
\* marker in any letter case; a document without an end-of-header marker
\* is parsed from its beginning.
C20_HeaderDroppedChunksSplit ==
  /\ pc = "parse" => records = ChunksOf(AfterHeader(content))
  /\ \A id \in 1..Len(heap) : \A i \in 1..Len(heap[id].QSOs) :
       heap[id].QSOs[i].Call # "M0XYZ"

\* C20 on the documents whose header is ASCII text
C20_OnAsciiHeader == IsASCII(doc.header) => C20_HeaderDroppedChunksSplit

\* parseContent has split, at an <eor> and an <EOR>, the text after the
\* header of a document whose header holds fields
C20_Witness ==
  /\ pc = "parse"
  /\ IsASCII(doc.header)
  /\ doc.header # ""
  /\ Len(doc.pieces) = 3
  /\ Len(records) = 3
  /\ records[1] = "\n" \o doc.pieces[1].text
  /\ records[2] = "\n" \o doc.pieces[2].text
  /\ records[3] = doc.pieces[3].text
  /\ ~doc.trail

(***************************************************************************)
(* The reload coordinator and its requests: what holds of Spec.            *)
(***************************************************************************)

\* C21: once the coordinator is constructed getParser() never returns nil:
\* the construction runs a first reload and, when that fails, ends without
\* a coordinator (no request is served, no tick is ever sent); the ticker
\* starts only after the construction succeeded; no later reload, failed
\* or not, sets rp.parser to nil.
C21_SnapshotNeverNil ==
  /\ [](\A r \in Readers : rpc[r] = "handle" => snap[r] # NIL)
  /\ [](phase = "serve" => rp_parser # NIL)
  /\ []((phase = "init" /\ pc = "ret" /\ err = "nil") => rp_parser # NIL)
  /\ []((pc = "exit") =>
          /\ phase = "init"
          /\ rp_parser = NIL
          /\ ~tick
          /\ \A r \in Readers : rpc[r] = "idle")
  /\ [](phase = "init" => (~tick /\ \A r \in Readers : rpc[r] = "idle"))
  /\ [][rp_parser # NIL => rp_parser' # NIL]_vars

\* a request holds a parser it got after a reload of the timer task failed
C21_Witness ==
  /\ failed
  /\ pc = "wait"
  /\ file.status # "ok"
  /\ \E r \in Readers : rpc[r] = "handle" /\ snap[r] # NIL /\ snap[r] = rp_parser

(***************************************************************************)
(* The requests and their queries: what holds of SpecRequest.              *)
(***************************************************************************)

\* C22: a request gets its parser from getParser() once, on the step from
\* "read" to "handle" and before any of its queries, and keeps it until it
\* responds; every query of the request is answered from the collection of
\* that parser, whatever rp.parser is at the time of the query, so the
\* record SearchQSO found is among the records GetQSOsByCallsign returns.
C22_OneSnapshotPerRequest ==
  /\ [](\A r \in Readers : rpc[r] # "handle" =>
          (snap[r] = NIL /\ answers[r] = << >>))
  /\ [](\A r \in Readers : \A i \in 1..Len(answers[r]) :
          /\ answers[r][i].op = HandlerCalls[i]
          /\ answers[r][i].from = snap[r]
          /\ answers[r][i].result = Answer(HandlerCalls[i], heap[snap[r]].QSOs))
  /\ [](\A r \in Readers : Len(answers[r]) = 2 =>
          \E k \in 1..Len(answers[r][2].result) :
             answers[r][2].result[k] = answers[r][1].result[1])
  /\ [][\A r \in Readers : snap'[r] # snap[r] =>
          \/ (rpc[r] = "read" /\ rpc'[r] = "handle" /\ snap'[r] = rp_parser
                /\ answers'[r] = << >>)
          \/ (rpc[r] = "handle" /\ rpc'[r] = "idle" /\ snap'[r] = NIL)]_vars
  /\ [][\A r \in Readers :
          (rpc[r] = "handle" /\ rpc'[r] = "handle") =>
             /\ snap'[r] = snap[r]
             /\ heap'[snap[r]] = heap[snap[r]]]_vars

\* a reload swapped rp.parser between the two queries of a request, to a
\* parser whose collection answers the second query differently
C22_Witness ==
  \E r \in Readers :
    /\ rpc[r] = "handle"
    /\ Len(answers[r]) = 2
    /\ answers[r][1].current = snap[r]
    /\ answers[r][2].current # snap[r]
    /\ answers[r][2].result #
         Answer("GetQSOsByCallsign", heap[answers[r][2].current].QSOs)

(***************************************************************************)
(* The order of the reloads: what holds of SpecOrder.  The ADIFParsers are *)
(* numbered in the order reload() allocates them, which is the order of    *)
(* the file reads.                                                         *)
(***************************************************************************)

\* a reload is in flight: reload() has been called and has not returned
ReloadInFlight == pc \in {"open", "read", "parse", "lock", "lockwait", "swap", "unlock", "ret"}

\* C23: reloads run one after another: the initial one is over before the
\* ticker and the timer task exist, and the timer task calls reload() only
\* from its wait, when the reload before has returned and holds nothing;
\* the parser of the reload in flight is the newest one; rp.parser changes
\* only to that parser, which is newer than the one it replaces; and each
\* getParser() returns a parser at least as new as the one the getParser()
\* before it returned.
C23_ReloadsInOrder ==
  /\ []((phase = "init" /\ ReloadInFlight) => (~tick /\ last = NIL))
  /\ [](pc = "wait" =>
          (parser = NIL /\ fd = NoFile /\ mutex.writer = "none"
             /\ rp_parser = Len(heap)))
  /\ [](parser # NIL => (ReloadInFlight /\ parser = Len(heap)))
  /\ [](last <= rp_parser /\ \A r \in Readers : snap[r] <= last)
  /\ [][(pc # "open" /\ pc' = "open") =>
          (pc = "wait" /\ tick /\ phase = "serve")]_vars
  /\ [][rp_parser' # rp_parser =>
          (pc = "swap" /\ rp_parser' = parser /\ rp_parser' > rp_parser
             /\ passes[parser].src = content)]_vars
  /\ [][last' >= last]_vars
  /\ [][\A r \in Readers :
          (rpc[r] = "read" /\ rpc'[r] = "handle") =>
             (last' = snap'[r] /\ snap'[r] = rp_parser /\ snap'[r] >= last)]_vars

\* a request got the parser of the reload that began after the one whose
\* parser another request still holds
C23_Witness ==
  /\ rp_parser = 3
  /\ last = 3
  /\ \E r, q \in Readers :
       /\ rpc[r] = "handle" /\ snap[r] = 3
       /\ rpc[q] = "handle" /\ snap[q] = 1
  /\ heap[1].QSOs # heap[3].QSOs

(***************************************************************************)
(* The permalink: what holds of SpecQuery.                                 *)
(***************************************************************************)

\* the records a search for the call sign and time of record i may return
SameCallAndTime(i) ==
  {j \in 1..Len(qsos) :
     qsos[j].Call = qsos[i].Call /\ qsos[j].Timestamp = qsos[i].Timestamp}

\* the records searched for: those with the call sign and time of the query
SearchedFor ==
  {i \in 1..Len(qsos) :
     /\ ~IsZero(qsos[i].Timestamp)
     /\ query.callSign = qsos[i].Call
     /\ query.searchTime = qsos[i].Timestamp}

\* C24: a search for the call sign and the timestamp of a record of the
\* collection with a non-zero timestamp returns, for every tolerance, a
\* record with that call sign and timestamp; and the permalink POST / builds
\* from a record it found leads GET /{path} to a record with the call sign
\* and timestamp of that record.
C24_PermalinkRoundTrip ==
  /\ query.op = "SearchQSO" =>
       \A i \in SearchedFor :
         /\ query.result # << >>
         /\ \E j \in SameCallAndTime(i) : query.result = <<qsos[j]>>
  /\ query.op = "GET /{path}" =>
       /\ ~query.redirect
       /\ query.result # << >>
       /\ query.result[1].Call = query.qso.Call
       /\ query.result[1].Timestamp = query.qso.Timestamp

\* C24 for a search where every distance fits a Duration
C24_SearchRoundTripWithinDurationRange ==
  (query.op = "SearchQSO" /\ InDurationRange) =>
    \A i \in SearchedFor :
      /\ query.result # << >>
      /\ \E j \in SameCallAndTime(i) : query.result = <<qsos[j]>>

\* C24 for the permalink of a record not before 1970 whose distance from
\* every record with its call sign fits a Duration
C24_PermalinkRoundTripFrom1970 ==
  (/\ query.op = "GET /{path}"
   /\ ~Before(query.qso.Timestamp, UnixEpoch)
   /\ \A i \in 1..Len(qsos) :
        (qsos[i].Call = query.qso.Call /\ ~IsZero(qsos[i].Timestamp)) =>
          DLess(Gap(qsos[i].Timestamp, query.qso.Timestamp), MaxDuration)) =>
    /\ ~query.redirect
    /\ query.result # << >>
    /\ query.result[1].Call = query.qso.Call
    /\ query.result[1].Timestamp = query.qso.Timestamp

\* C24 for the search alone
C24_SearchRoundTrip ==
  query.op = "SearchQSO" =>
    \A i \in SearchedFor :
      \E j \in SameCallAndTime(i) : query.result = <<qsos[j]>>

\* C24 for the permalink of a record found by a search whose distances fit
C24_PermalinkResolves ==
  (query.op = "GET /{path}"
     /\ \A i \in 1..Len(qsos) :
          (qsos[i].Call = query.qso.Call /\ ~IsZero(qsos[i].Timestamp)) =>
            DLess(Gap(qsos[i].Timestamp, query.qso.Timestamp), MaxDuration)) =>
    ~query.redirect

\* the permalink of a record of 2024 has led GET /{path} back to it, past a
\* second record with its call sign three minutes away
C24_Witness ==
  /\ query.op = "GET /{path}"
  /\ query.path = "W1AW-1705329000"
  /\ query.result = <<query.qso>>
  /\ \E i \in 1..Len(qsos) :
       /\ qsos[i].Call = "W1AW"
       /\ qsos[i].Timestamp = Date(2024, 1, 15, 14, 33, 0)

====
